---- MODULE Spec2Model ----
(***************************************************************************)
(* Model of the ingestion pipeline of filamentbox: the bounded intake      *)
(* queue (enqueue_data_point), the batching / retry / alert / persistence  *)
(* loop of database_writer, the status it publishes through                *)
(* update_database_status, and the SQLite store written by persist_batch.  *)
(*                                                                         *)
(* Data points are the naturals 1, 2, ... in the order in which            *)
(* enqueue_data_point is called.  Time is the wall clock in whole seconds. *)
(***************************************************************************)
EXTENDS Integers, Sequences, FiniteSets, TLC

(* ---- size of the model ------------------------------------------------ *)
MaxPoints == 4
MaxTime == 4
MaxFailures == 3
ZeroCycleCap == 2
MaxStreak == 10
MaxBatchesCfg == 5
MaxPersistCalls == 8
MaxSetBacks == 1
MaxRecoverRows == 3
MaxPasses == 1
MaxCorrupt == 1

(* ---- configuration values (database_writer.py:31-36, persistence.py:19), *)
(* ---- scaled down from the defaults                                       *)
WRITE_QUEUE_MAXSIZE == 2
BATCH_SIZE == 2
FLUSH_INTERVAL == 2
BACKOFF_BASE == 1
BACKOFF_MAX == 2
ALERT_FAILURE_THRESHOLD == 2
MAX_PERSISTED_BATCHES == 2

(* ---- literals of the code --------------------------------------------- *)
GetTimeout == 1
NoTime == -1

Producers == {"collector", "restarted_collector"}
WriteDurations == {0, 1}
DbTypes == {"influxdb", "none"}
PersistFaults == {"none", "insert", "prune"}

VARIABLES
    DATABASE_ENABLED, DB_TYPE, PERSIST_UNSENT_ON_ALERT, alert_handler, max_batches,
    write_queue, stop_event, now,
    ppc, data_point, nextPoint,
    wpc, batch, last_flush_time, current_time, failure_count, alerted, sleep_time,
    db_status, store, sqlite_sequence, db_adapter,
    evicted, dropped,
    dequeued, written, stopAtCheck, emptyAtCheck, lastAttempt, failedBatch,
    alertCalls, alertAt, persistCalls, persistedBatch, attemptSinceDequeue, zeroCycles,
    bk, pst, rec, tc, orch, fac, fl, life, lk

cfgVars == <<DATABASE_ENABLED, DB_TYPE, PERSIST_UNSENT_ON_ALERT, alert_handler, max_batches>>
prodVars == <<ppc, data_point, nextPoint>>
writerVars == <<wpc, batch, last_flush_time, current_time, failure_count, alerted, sleep_time>>
writerHist == <<dequeued, written, stopAtCheck, emptyAtCheck, lastAttempt, failedBatch,
                alertCalls, alertAt, persistCalls, persistedBatch, attemptSinceDequeue,
                zeroCycles>>
histVars == <<evicted, dropped, writerHist>>
(* the state of the components that are exercised on their own *)
auxVars == <<bk, pst, rec, tc, orch, fac, fl, life, lk>>
(* the table unsent_batches and its AUTOINCREMENT counter *)
dbVars == <<store, sqlite_sequence>>
(* the state of the threads *)
threadVars == <<write_queue, stop_event, prodVars, writerVars, db_status, db_adapter, histVars>>
pipelineVars == <<cfgVars, threadVars, now, dbVars>>
vars == <<pipelineVars, auxVars>>

Min(a, b) == IF a <= b THEN a ELSE b

Range(s) == {s[i] : i \in 1..Len(s)}

RECURSIVE Pow2(_)
Pow2(n) == IF n <= 0 THEN 1 ELSE 2 * Pow2(n - 1)

(* ======================= intake queue ================================== *)

(* queue.Queue(maxsize=WRITE_QUEUE_MAXSIZE).full() *)
Full(q) == Len(q) >= WRITE_QUEUE_MAXSIZE

(* write_queue.put_nowait(x): the new queue, or the Full exception *)
put_nowait(q, x) ==
    IF Full(q) THEN [raised |-> "Full", q |-> q]
               ELSE [raised |-> "no", q |-> Append(q, x)]

(* get_nowait taking the newest element instead of the oldest *)
get_nowait_newest(q) ==
    IF q = <<>> THEN [raised |-> "Empty", q |-> q]
                ELSE [raised |-> "no", q |-> SubSeq(q, 1, Len(q) - 1)]

(* write_queue.get_nowait(): removes the oldest element, or Empty *)
get_nowait(q) ==
    IF q = <<>> THEN [raised |-> "Empty", q |-> q]
                ELSE [raised |-> "no", q |-> Tail(q)]

(* line 136: except queue.Full around the first put: go on to the eviction *)
OnFirstFull == "evict"

(* lines 140-143: except queue.Empty around the eviction: log and return *)
OnEvictEmpty == "idle"

(* the second put without its except clause *)
OnSecondFullUncaught == "raised"

(* lines 147-151: except queue.Full around the second put: log and return *)
OnSecondFull == "idle"

(* enqueue_data_point, lines 130-135: the disabled check and the first put *)
EnqPut(p) ==
    /\ ppc[p] = "idle"
    /\ nextPoint <= MaxPoints
    /\ nextPoint' = nextPoint + 1
    /\ IF ~DATABASE_ENABLED
         THEN UNCHANGED <<write_queue, ppc, data_point>>
         ELSE LET r == put_nowait(write_queue, nextPoint) IN
              IF r.raised = "no"
                THEN /\ write_queue' = r.q
                     /\ UNCHANGED <<ppc, data_point>>
                ELSE /\ ppc' = [ppc EXCEPT ![p] = OnFirstFull]
                     /\ data_point' = [data_point EXCEPT ![p] = nextPoint]
                     /\ UNCHANGED write_queue
    /\ UNCHANGED <<auxVars, db_adapter, cfgVars, stop_event, now, writerVars, db_status, dbVars, histVars>>

(* enqueue_data_point, lines 138-143: drop the oldest point *)
EnqEvict(p) ==
    /\ ppc[p] = "evict"
    /\ LET r == get_nowait(write_queue) IN
         IF r.raised = "no"
           THEN /\ write_queue' = r.q
                /\ evicted' = evicted \cup (Range(write_queue) \ Range(r.q))
                /\ ppc' = [ppc EXCEPT ![p] = "reput"]
                /\ UNCHANGED <<data_point, dropped>>
           ELSE /\ ppc' = [ppc EXCEPT ![p] = OnEvictEmpty]
                /\ data_point' = [data_point EXCEPT ![p] = 0]
                /\ dropped' = dropped \cup {data_point[p]}
                /\ UNCHANGED <<write_queue, evicted>>
    /\ UNCHANGED <<auxVars, db_adapter, cfgVars, stop_event, now, nextPoint, writerVars, db_status, dbVars,
                   writerHist>>

(* enqueue_data_point, lines 144-151: the second put *)
EnqReput(p) ==
    /\ ppc[p] = "reput"
    /\ LET r == put_nowait(write_queue, data_point[p]) IN
         /\ write_queue' = r.q
         /\ IF r.raised = "no"
              THEN /\ ppc' = [ppc EXCEPT ![p] = "idle"]
                   /\ UNCHANGED dropped
              ELSE /\ ppc' = [ppc EXCEPT ![p] = OnSecondFull]
                   /\ dropped' = dropped \cup {data_point[p]}
    /\ data_point' = [data_point EXCEPT ![p] = 0]
    /\ UNCHANGED <<auxVars, db_adapter, cfgVars, stop_event, now, nextPoint, writerVars, db_status, dbVars,
                   evicted, writerHist>>

(* ======================= shared status ================================= *)

(* shared_state.update_database_status *)
update_database_status(st, db_type, enabled, writer_alive, last_write_time, write_failures) ==
    [database_type |-> db_type,
     enabled |-> enabled,
     writer_alive |-> writer_alive,
     last_write_time |-> IF last_write_time # NoTime THEN last_write_time
                                                       ELSE st.last_write_time,
     write_failures |-> write_failures]

(* ======================= durability store ============================== *)

(* ---- json.dumps(batch) and json.loads(batch_json): the text is a        *)
(* ---- sequence of tokens, a point is written as its numeral              *)
PointToken(x) == ToString(x)

RECURSIVE json_items(_)
json_items(b) ==
    IF b = <<>> THEN <<>>
    ELSE IF Len(b) = 1 THEN <<PointToken(b[1])>>
    ELSE <<PointToken(Head(b)), ",">> \o json_items(Tail(b))

(* line 45: json.dumps(batch) *)
json_dumps(b) == <<"[">> \o json_items(b) \o <<"]">>

IsPointToken(tok) == \E x \in 0..MaxPoints : PointToken(x) = tok

TokenPoint(tok) == CHOOSE x \in 0..MaxPoints : PointToken(x) = tok

(* json.loads(text) raises JSONDecodeError unless this holds *)
json_valid(text) ==
    /\ Len(text) >= 2
    /\ text[1] = "["
    /\ text[Len(text)] = "]"
    /\ \/ Len(text) = 2
       \/ /\ Len(text) % 2 = 1
          /\ \A i \in 2..(Len(text) - 1) :
               IF i % 2 = 0 THEN IsPointToken(text[i]) ELSE text[i] = ","

(* the decoded list in reverse order *)
json_loads_reversed(text) ==
    LET n == (Len(text) - 1) \div 2
    IN [i \in 1..n |-> TokenPoint(text[2 * (n - i + 1)])]

(* line 101: json.loads(batch_json), for a text that is valid *)
json_loads(text) ==
    LET n == (Len(text) - 1) \div 2
    IN [i \in 1..n |-> TokenPoint(text[2 * i])]

(* ---- the table unsent_batches: a sequence of rows in rowid order ------- *)

(* ORDER BY persisted_at ASC; rows of equal persisted_at come in rowid order *)
Older(r1, r2) ==
    \/ r1.persisted_at < r2.persisted_at
    \/ r1.persisted_at = r2.persisted_at /\ r1.id < r2.id

RECURSIVE order_by_persisted_at(_)
order_by_persisted_at(rows) ==
    IF rows = <<>> THEN <<>>
    ELSE LET i == CHOOSE i \in 1..Len(rows) :
                      \A j \in 1..Len(rows) : j # i => Older(rows[i], rows[j])
         IN <<rows[i]>> \o order_by_persisted_at(SubSeq(rows, 1, i - 1)
                                                  \o SubSeq(rows, i + 1, Len(rows)))

(* DELETE FROM unsent_batches WHERE id IN ids *)
delete_rows(rows, ids) ==
    LET keep(r) == r.id \notin ids
    IN SelectSeq(rows, keep)

(* pruning that starts one row too late *)
PruneNeededLate(count, maxb) == count > maxb + 1

(* line 65: if count <= MAX_PERSISTED_BATCHES: return *)
PruneNeeded(count, maxb) == count > maxb

(* persistence._prune_old_batches (lines 59-80) *)
prune_old_batches(rows, maxb) ==
    LET count == Len(rows)
        target == (maxb * 8) \div 10
        to_remove == count - target
        oldest == SubSeq(order_by_persisted_at(rows), 1, to_remove)
    IN IF ~PruneNeeded(count, maxb) THEN rows
       ELSE delete_rows(rows, {oldest[i].id : i \in 1..to_remove})

(* an empty batch is stored like any other *)
PersistSkippedNever(b) == FALSE

(* lines 41-42: if not batch: return *)
PersistSkipped(b) == b = <<>>

(* persistence.persist_batch (lines 39-56); fault says which statement     *)
(* raised, if any: the exception is logged and the call returns             *)
persist_batch(rows, seq, b, t, fault, maxb) ==
    IF PersistSkipped(b) THEN [rows |-> rows, sqlite_sequence |-> seq]
    ELSE IF fault = "insert" THEN [rows |-> rows, sqlite_sequence |-> seq]
    ELSE LET inserted == Append(rows, [id |-> seq + 1, persisted_at |-> t,
                                       batch_json |-> json_dumps(b)])
         IN [rows |-> IF fault = "prune" THEN inserted ELSE prune_old_batches(inserted, maxb),
             sqlite_sequence |-> seq + 1]

(* ======================= stop signal =================================== *)

(* the orchestrator sets the writer's stop event *)
SetStop ==
    /\ ~stop_event
    /\ stop_event' = TRUE
    /\ UNCHANGED <<auxVars, db_adapter, cfgVars, write_queue, now, prodVars, writerVars, db_status, dbVars, histVars>>

(* ======================= storage adapter =============================== *)

(* create_database_adapter(DB_TYPE, db_config): TRUE when an adapter is     *)
(* returned, FALSE when the constructor raises; NoneAdapter never raises    *)
AdapterCreation(db_type) == IF db_type = "none" THEN {TRUE} ELSE BOOLEAN

(* db_adapter.write_points(batch): TRUE when it returns, FALSE when it      *)
(* raises; NoneAdapter.write_points only logs.  A streak of failures is     *)
(* cut off at MaxFailures.                                                  *)
WriteOutcomes(db_type, fc) ==
    IF db_type # "none" /\ fc < MaxFailures THEN BOOLEAN ELSE {TRUE}

(* ======================= database_writer =============================== *)

(* the loop test without the queue *)
LoopConditionStopOnly(stop, q) == ~stop

(* line 190: while not stop_event.is_set() or not write_queue.empty() *)
LoopCondition(stop, q) == ~stop \/ q # <<>>

(* the flush trigger with a strict size comparison *)
FlushDueStrict(b, ct, lft) == Len(b) > BATCH_SIZE \/ ct - lft >= FLUSH_INTERVAL

(* line 199: the flush trigger *)
FlushDue(b, ct, lft) == Len(b) >= BATCH_SIZE \/ ct - lft >= FLUSH_INTERVAL

(* the flush without the empty-batch test *)
BatchTruthyAlways(b) == TRUE

(* line 200: if batch *)
BatchTruthy(b) == b # <<>>

(* line 207: batch.clear() after a successful write *)
BatchAfterSuccess(b) == <<>>

(* the except branch dropping the batch *)
BatchAfterFailureCleared(b) == <<>>

(* lines 219-248: the batch is not touched by the except branch *)
BatchAfterFailure(b) == b

(* last_flush_time taken from the clock after the write *)
FlushTimeAfterSuccessNow(ct, t) == t

(* line 208: last_flush_time = current_time *)
FlushTimeAfterSuccess(ct, t) == ct

(* lines 211-212: if failure_count != 0: failure_count = 0 *)
FailureCountAfterSuccess(fc) == IF fc # 0 THEN 0 ELSE fc

(* lines 211-213: if failure_count != 0: ...; alerted = False *)
AlertedAfterSuccess(fc, al) == IF fc # 0 THEN FALSE ELSE al

(* the alert test without the threshold *)
AlertDueAtAnyCount(threshold, fc, al) == ~al

(* line 226, for a given value of ALERT_FAILURE_THRESHOLD *)
AlertDueAt(threshold, fc, al) == fc >= threshold /\ ~al

(* the alert test without the alerted flag *)
AlertDueEveryTime(fc, al) == fc >= ALERT_FAILURE_THRESHOLD

(* line 226: failure_count >= ALERT_FAILURE_THRESHOLD and not alerted *)
AlertDue(fc, al) == AlertDueAt(ALERT_FAILURE_THRESHOLD, fc, al)

(* the persist test without the configuration flag *)
PersistDueAlways(persist_on_alert, db_type) == db_type # "none"

(* line 238: PERSIST_UNSENT_ON_ALERT and DB_TYPE != "none" *)
PersistDue(persist_on_alert, db_type) == persist_on_alert /\ db_type # "none"

(* the delay without the cap *)
BackoffDelayUncapped(base, max_delay, fc) == base * Pow2(fc - 1)

(* line 242: min(BACKOFF_BASE * (2 ** (failure_count - 1)), BACKOFF_MAX) *)
BackoffDelay(base, max_delay, fc) == Min(base * Pow2(fc - 1), max_delay)

(* line 242 under the configuration of this model *)
Backoff(fc) == BackoffDelay(BACKOFF_BASE, BACKOFF_MAX, fc)

(* line 243: random.uniform(0, backoff * 0.1), in whole seconds *)
Jitter(backoff) == 0..(backoff \div 10)

(* lines 161-188: the disabled check, the first status, the adapter, the locals *)
WriterStart ==
    /\ wpc = "start"
    /\ IF ~DATABASE_ENABLED
         THEN /\ db_status' = update_database_status(db_status, DB_TYPE, FALSE, FALSE, NoTime, 0)
              /\ wpc' = "disabled"
              /\ UNCHANGED <<batch, last_flush_time, failure_count, alerted, db_adapter>>
         ELSE \E created \in AdapterCreation(DB_TYPE) :
              /\ db_status' = update_database_status(db_status, DB_TYPE, DATABASE_ENABLED,
                                                     TRUE, NoTime, 0)
              /\ IF created
                   THEN /\ db_adapter' = "open"
                        /\ wpc' = "loop"
                        /\ batch' = <<>>
                        /\ last_flush_time' = now
                        /\ failure_count' = 0
                        /\ alerted' = FALSE
                   ELSE /\ wpc' = "crashed"
                        /\ UNCHANGED <<batch, last_flush_time, failure_count, alerted,
                                       db_adapter>>
    /\ UNCHANGED <<auxVars, cfgVars, write_queue, stop_event, now, prodVars, current_time, sleep_time,
                   dbVars, histVars>>

(* line 190: the loop test *)
WriterLoop ==
    /\ wpc = "loop"
    /\ wpc' = IF LoopCondition(stop_event, write_queue) THEN "get" ELSE "close"
    /\ stopAtCheck' = stop_event
    /\ emptyAtCheck' = (write_queue = <<>>)
    /\ UNCHANGED <<auxVars, db_adapter, cfgVars, write_queue, stop_event, now, prodVars, batch, last_flush_time,
                   current_time, failure_count, alerted, sleep_time, db_status, dbVars,
                   evicted, dropped, dequeued, written, lastAttempt, failedBatch, alertCalls, alertAt,
                   persistCalls, persistedBatch, attemptSinceDequeue, zeroCycles>>

(* the new point put in front of the batch *)
BatchAppendFront(b, x) == <<x>> \o b

(* line 194: batch.append(data_point) *)
BatchAppend(b, x) == Append(b, x)

(* a timed-out get that goes back to the loop test *)
OnQueueEmptyContinue == "loop"

(* lines 195-196: except queue.Empty: pass, the flush trigger comes next *)
OnQueueEmpty == "check"

(* lines 191-198: write_queue.get(timeout=1), batch.append, current_time *)
WriterGet ==
    /\ wpc = "get"
    /\ IF write_queue # <<>>
         THEN /\ batch' = BatchAppend(batch, Head(write_queue))
              /\ write_queue' = Tail(write_queue)
              /\ dequeued' = Append(dequeued, Head(write_queue))
              /\ attemptSinceDequeue' = FALSE
              /\ zeroCycles' = 0
              /\ now' = now
         ELSE /\ now + GetTimeout <= MaxTime
              /\ now' = now + GetTimeout
              /\ UNCHANGED <<batch, write_queue, dequeued, attemptSinceDequeue, zeroCycles>>
    /\ current_time' = now'
    /\ wpc' = IF write_queue # <<>> THEN "check" ELSE OnQueueEmpty
    /\ UNCHANGED <<auxVars, db_adapter, cfgVars, stop_event, prodVars, last_flush_time, failure_count, alerted,
                   sleep_time, db_status, dbVars, evicted, dropped, written, stopAtCheck, emptyAtCheck,
                   lastAttempt, failedBatch, alertCalls, alertAt, persistCalls, persistedBatch>>

(* lines 199-200: the flush trigger and the empty-batch test *)
WriterCheck ==
    /\ wpc = "check"
    /\ IF FlushDue(batch, current_time, last_flush_time)
         THEN IF BatchTruthy(batch)
                THEN /\ wpc' = "write"
                     /\ UNCHANGED zeroCycles
                ELSE /\ wpc' = "loop"
                     /\ zeroCycles' = Min(zeroCycles + 1, ZeroCycleCap)
         ELSE /\ wpc' = "loop"
              /\ UNCHANGED zeroCycles
    /\ UNCHANGED <<auxVars, db_adapter, cfgVars, write_queue, stop_event, now, prodVars, batch, last_flush_time,
                   current_time, failure_count, alerted, sleep_time, db_status, dbVars,
                   evicted, dropped, dequeued, written, stopAtCheck, emptyAtCheck, lastAttempt, failedBatch,
                   alertCalls, alertAt, persistCalls, persistedBatch, attemptSinceDequeue>>

(* lines 205-218: write_points returned *)
WriterWriteOk ==
    /\ wpc = "write"
    /\ TRUE \in WriteOutcomes(DB_TYPE, failure_count)
    /\ \E d \in WriteDurations :
         /\ now + d <= MaxTime
         /\ now' = now + d
    /\ written' = written \o batch
    /\ batch' = BatchAfterSuccess(batch)
    /\ last_flush_time' = FlushTimeAfterSuccess(current_time, now')
    /\ failure_count' = FailureCountAfterSuccess(failure_count)
    /\ alerted' = AlertedAfterSuccess(failure_count, alerted)
    /\ db_status' = update_database_status(db_status, DB_TYPE, DATABASE_ENABLED, TRUE,
                                           current_time, 0)
    /\ wpc' = "loop"
    /\ lastAttempt' = "ok"
    /\ failedBatch' = <<>>
    /\ alertCalls' = 0
    /\ alertAt' = 0
    /\ persistCalls' = 0
    /\ persistedBatch' = <<>>
    /\ attemptSinceDequeue' = TRUE
    /\ zeroCycles' = 0
    /\ UNCHANGED <<auxVars, db_adapter, cfgVars, write_queue, stop_event, prodVars, current_time, sleep_time,
                   dbVars, evicted, dropped, dequeued, stopAtCheck, emptyAtCheck>>

(* lines 205, 219-247: write_points raised *)
WriterWriteFail ==
    /\ wpc = "write"
    /\ FALSE \in WriteOutcomes(DB_TYPE, failure_count)
    /\ \E d \in WriteDurations :
         /\ now + d <= MaxTime
         /\ now' = now + d
    /\ failure_count' = failure_count + 1
    /\ db_status' = update_database_status(db_status, DB_TYPE, DATABASE_ENABLED, TRUE,
                                           NoTime, failure_count')
    /\ IF AlertDue(failure_count', alerted)
         THEN /\ alertCalls' = IF alert_handler # "None" THEN alertCalls + 1 ELSE alertCalls
              /\ alertAt' = IF alert_handler # "None" THEN failure_count' ELSE alertAt
              /\ IF PersistDue(PERSIST_UNSENT_ON_ALERT, DB_TYPE)
                   THEN /\ \E fault \in PersistFaults :
                             LET db == persist_batch(store, sqlite_sequence, batch, now',
                                                     fault, max_batches)
                             IN /\ store' = db.rows
                                /\ sqlite_sequence' = db.sqlite_sequence
                        /\ persistCalls' = persistCalls + 1
                        /\ persistedBatch' = batch
                   ELSE UNCHANGED <<dbVars, persistCalls, persistedBatch>>
              /\ alerted' = TRUE
         ELSE UNCHANGED <<alertCalls, alertAt, dbVars, persistCalls, persistedBatch, alerted>>
    /\ batch' = BatchAfterFailure(batch)
    /\ \E jitter \in Jitter(Backoff(failure_count')) :
         sleep_time' = Backoff(failure_count') + jitter
    /\ wpc' = "sleep"
    /\ lastAttempt' = "failed"
    /\ failedBatch' = batch
    /\ attemptSinceDequeue' = TRUE
    /\ zeroCycles' = 0
    /\ UNCHANGED <<auxVars, db_adapter, cfgVars, write_queue, stop_event, prodVars, last_flush_time, current_time,
                   evicted, dropped, dequeued, written, stopAtCheck, emptyAtCheck>>

(* line 248: time.sleep(sleep_time) *)
WriterSleep ==
    /\ wpc = "sleep"
    /\ now + sleep_time <= MaxTime
    /\ now' = now + sleep_time
    /\ sleep_time' = 0
    /\ wpc' = "loop"
    /\ UNCHANGED <<auxVars, db_adapter, cfgVars, write_queue, stop_event, prodVars, batch, last_flush_time,
                   current_time, failure_count, alerted, db_status, dbVars, histVars>>

(* db_adapter.close(): TRUE when it returns, FALSE when it raises;          *)
(* NoneAdapter.close only logs                                              *)
CloseOutcomes(db_type) == IF db_type = "none" THEN {TRUE} ELSE BOOLEAN

(* an exception of close that is not caught ends the thread *)
OnCloseRaisedUncaught == "crashed"

(* lines 253-254: except Exception logs the exception of close *)
OnCloseRaised == "final"

(* lines 250-254: close the adapter *)
WriterClose ==
    /\ wpc = "close"
    /\ \E closed \in CloseOutcomes(DB_TYPE) :
         /\ db_adapter' = IF closed THEN "closed" ELSE "close_raised"
         /\ wpc' = IF closed THEN "final" ELSE OnCloseRaised
    /\ UNCHANGED <<auxVars, cfgVars, write_queue, stop_event, now, prodVars, batch,
                   last_flush_time, current_time, failure_count, alerted, sleep_time,
                   db_status, dbVars, histVars>>

(* line 257: the final status, writer_alive False *)
WriterFinalStatus ==
    /\ wpc = "final"
    /\ db_status' = update_database_status(db_status, DB_TYPE, DATABASE_ENABLED, FALSE,
                                           NoTime, 0)
    /\ wpc' = "stopped"
    /\ UNCHANGED <<auxVars, db_adapter, cfgVars, write_queue, stop_event, now, prodVars, batch,
                   last_flush_time, current_time, failure_count, alerted, sleep_time, dbVars,
                   histVars>>

WriterNext ==
    \/ WriterStart
    \/ WriterLoop
    \/ WriterGet
    \/ WriterCheck
    \/ WriterWriteOk
    \/ WriterWriteFail
    \/ WriterSleep
    \/ WriterClose
    \/ WriterFinalStatus

(* ======================= the system ==================================== *)

(* the pipeline before any thread has run *)
PipelineStart ==
    /\ write_queue = <<>>
    /\ stop_event = FALSE
    /\ now = 0
    /\ ppc = [p \in Producers |-> "idle"]
    /\ data_point = [p \in Producers |-> 0]
    /\ nextPoint = 1
    /\ wpc = "start"
    /\ batch = <<>>
    /\ last_flush_time = 0
    /\ current_time = 0
    /\ failure_count = 0
    /\ alerted = FALSE
    /\ sleep_time = 0
    /\ db_status = [database_type |-> "unknown", enabled |-> FALSE, writer_alive |-> FALSE,
                    last_write_time |-> NoTime, write_failures |-> 0]
    /\ store = <<>>
    /\ sqlite_sequence = 0
    /\ db_adapter = "unbound"
    /\ evicted = {}
    /\ dropped = {}
    /\ dequeued = <<>>
    /\ written = <<>>
    /\ stopAtCheck = FALSE
    /\ emptyAtCheck = TRUE
    /\ lastAttempt = "none"
    /\ failedBatch = <<>>
    /\ alertCalls = 0
    /\ alertAt = 0
    /\ persistCalls = 0
    /\ persistedBatch = <<>>
    /\ attemptSinceDequeue = FALSE
    /\ zeroCycles = 0

(* no call of persist_batch yet: the wall clock of the calls, the number of *)
(* calls and of rows inserted, the times the clock was set back, whether a  *)
(* statement has raised, the arguments of the last call, and the table      *)
(* before and after it                                                      *)
PersistIdle ==
    [clock |-> 0, calls |-> 0, inserts |-> 0, set_backs |-> 0, clean |-> TRUE,
     batch |-> <<>>, fault |-> "none", at |-> 0, before |-> <<>>, seq_before |-> 0,
     after |-> <<>>]

(* no pass of load_and_flush_persisted_batches yet: where the pass is, its  *)
(* adapter, the rows it fetched, the index of the next row, its counters;   *)
(* the table before the pass, what was done with each row (the adapter's    *)
(* answer included), the result returned, the table at the return, passes   *)
(* and corruptions so far                                                   *)
RecoverIdle ==
    [pc |-> "idle", adapter |-> "none", rows |-> <<>>, i |-> 0,
     success_count |-> 0, failure_count |-> 0,
     before |-> <<>>, attempts |-> <<>>, result |-> <<0, 0>>, after |-> <<>>,
     passes |-> 0, corrupt |-> 0]

(* the names of the registry of thread_control (lines 15-20; two of the     *)
(* four are modelled) and a name that is not in it                          *)
KnownNames == {"database_writer", "data_collector"}
Names == KnownNames \cup {"webui"}
Operations == {"restart", "start", "stop"}

(* thread_control at import (lines 15-32): no handle, no callback, the lock *)
(* free; no operation has been called                                       *)
ControlIdle ==
    [threads |-> [n \in KnownNames |-> "None"],
     callbacks |-> [op \in Operations |-> {}],
     lock |-> "free",
     call |-> [pc |-> "idle", op |-> "restart", name |-> "webui"],
     result |-> [ok |-> FALSE, message |-> "none", invoked |-> FALSE,
                 callback_raised |-> FALSE, outcome |-> "none"]]

(* the orchestrator before monitor() (orchestrator.py:355-362) and the      *)
(* request maps of shared_state at import (shared_state.py:35-40): no       *)
(* request; nothing polled, called, logged or stopped.  fresh lists the     *)
(* requests whose time stamp is later than the last call of the operation   *)
(* for that name.                                                           *)
MonitorIdle ==
    [requests |-> [op \in Operations |-> {}],
     fresh |-> [op \in Operations |-> {}],
     pc |-> "poll",
     pending |-> {},
     current |-> "none",
     calls |-> [n \in Names |-> 0],
     stopped |-> {},
     critical |-> {},
     queued |-> 0]

(* create_database_adapter has not been called: no arguments, no result,   *)
(* no call of the adapter                                                   *)
FactoryIdle ==
    [db_type |-> "none", version |-> "absent", installed |-> TRUE,
     result |-> "not_called", adapter |-> "None", error |-> "None",
     call |-> "None", points |-> <<>>, returned |-> "None", stored |-> <<>>]

(* the flush attempts of a writer run before the run: no configuration, no  *)
(* point in the queue, the locals of lines 185-188, nothing attempted       *)
FlushIdle ==
    [pc |-> "idle", threshold |-> 0, persist |-> FALSE, handler |-> "None",
     base |-> 0, max_delay |-> 0, failures_before_success |-> 0,
     queue |-> <<>>, batch |-> <<>>, failure_count |-> 0, alerted |-> FALSE,
     attempts |-> 0, failed |-> 0, delays |-> <<>>, alerts |-> 0, alert_at |-> 0,
     handler_calls |-> 0, handler_raised |-> 0, persisted |-> <<>>,
     restored |-> 0, written |-> <<>>, last |-> "none"]

(* the bound on the writer threads the orchestrator creates, and on the    *)
(* points that wait in the intake queue next to them                        *)
MaxWriters == 2
MaxWaiting == 1

(* the orchestrator before start() (orchestrator.py:52-64): the events      *)
(* clear, no thread, an empty table; nothing registered, nothing queued     *)
LifeIdle ==
    [stop_event |-> FALSE, writer_stop_event |-> FALSE, writer_thread |-> 0,
     threads |-> [database_writer |-> 0, data_collector |-> "absent",
                  heating_control |-> "absent"],
     registry |-> [database_writer |-> 0, heating_control |-> "None"],
     w |-> [k \in 1..MaxWriters |-> "unborn"], created |-> 0, queue |-> <<>>,
     collector |-> "none", heating |-> "none", writer_alive |-> FALSE,
     main |-> "init", op |-> "none", name |-> "none",
     result |-> [op |-> "none", name |-> "none", ok |-> FALSE, outcome |-> "none"],
     stop_called |-> FALSE]

(* the two locks (thread_control.py:32, shared_state.py:11) and the threads *)
(* that take them                                                           *)
Locks == {"_thread_lock", "_state_lock"}
LockThreads == {"monitor", "web", "writer", "collector"}

(* no lock is held and no function that takes one is running *)
LocksIdle ==
    [holder |-> [l \in Locks |-> "free"],
     todo |-> [t \in LockThreads |-> <<>>],
     held |-> [t \in LockThreads |-> <<>>]]

(* the separately exercised components at rest *)
AuxIdle ==
    /\ bk = [base |-> 0, max_delay |-> 0, failure_count |-> 0, backoff |-> 0,
             previous |-> 0, sleep_time |-> 0]
    /\ pst = PersistIdle
    /\ rec = RecoverIdle
    /\ tc = ControlIdle
    /\ orch = MonitorIdle
    /\ fac = FactoryIdle
    /\ fl = FlushIdle
    /\ life = LifeIdle
    /\ lk = LocksIdle

Init ==
    /\ DATABASE_ENABLED \in BOOLEAN
    /\ DB_TYPE \in DbTypes
    /\ PERSIST_UNSENT_ON_ALERT \in BOOLEAN
    /\ alert_handler \in {"None", "handler"}
    /\ max_batches = MAX_PERSISTED_BATCHES
    /\ PipelineStart
    /\ AuxIdle

Next ==
    \/ \E p \in Producers : EnqPut(p)
    \/ \E p \in Producers : EnqEvict(p)
    \/ \E p \in Producers : EnqReput(p)
    \/ SetStop
    \/ WriterNext

Spec == Init /\ [][Next]_vars

(* the writer thread is scheduled as long as it can take a step *)
FairSpec == Spec /\ WF_vars(WriterNext)

AllIdle == \A p \in Producers : ppc[p] = "idle"

(* producers call enqueue_data_point one call at a time, and the writer     *)
(* dequeues only between calls                                              *)
NextSeq ==
    \/ \E p \in Producers : EnqPut(p) /\ AllIdle
    \/ \E p \in Producers : EnqEvict(p)
    \/ \E p \in Producers : EnqReput(p)
    \/ SetStop /\ AllIdle
    \/ WriterNext /\ AllIdle

SeqSpec == Init /\ [][NextSeq]_vars

Running == {"loop", "get", "check", "write", "sleep"}

IsPrefix(s, t) == Len(s) <= Len(t) /\ SubSeq(t, 1, Len(s)) = s

(* the points of the rows now in the durability store *)
StoredPoints == UNION {Range(json_loads(store[i].batch_json)) : i \in 1..Len(store)}

(* ======================= the backoff on its own ======================== *)

(* values of BACKOFF_BASE and BACKOFF_MAX (database_writer.py:34-35);       *)
(* base 2 with maximum 300 is the default configuration                     *)
BackoffBases == {1, 2, 10}
BackoffMaxes == {2, 60, 300}

(* the pipeline at rest, while a component is exercised on its own *)
PipelineAtRest ==
    /\ DATABASE_ENABLED = FALSE
    /\ DB_TYPE = "none"
    /\ PERSIST_UNSENT_ON_ALERT = FALSE
    /\ alert_handler = "None"
    /\ max_batches = MAX_PERSISTED_BATCHES
    /\ PipelineStart

(* lines 220 and 242-244: one more consecutive failure; the delay and the   *)
(* jittered sleep time are computed from the new failure count              *)
BackoffFailure ==
    /\ bk.base > 0
    /\ bk.failure_count < MaxStreak
    /\ LET fc == bk.failure_count + 1
           backoff == BackoffDelay(bk.base, bk.max_delay, fc)
       IN \E jitter \in Jitter(backoff) :
            bk' = [bk EXCEPT !.failure_count = fc,
                             !.previous = bk.backoff,
                             !.backoff = backoff,
                             !.sleep_time = backoff + jitter]
    /\ UNCHANGED <<pipelineVars, pst, rec, tc, orch, fac, fl, life, lk>>

(* lines 209-213: a successful write ends the streak *)
BackoffSuccess ==
    /\ bk.base > 0
    /\ bk.failure_count # 0
    /\ bk' = [bk EXCEPT !.failure_count = 0, !.previous = 0, !.backoff = 0, !.sleep_time = 0]
    /\ UNCHANGED <<pipelineVars, pst, rec, tc, orch, fac, fl, life, lk>>

BackoffInit ==
    /\ PipelineAtRest
    /\ pst = PersistIdle
    /\ rec = RecoverIdle
    /\ tc = ControlIdle
    /\ orch = MonitorIdle
    /\ fac = FactoryIdle
    /\ fl = FlushIdle
    /\ life = LifeIdle
    /\ lk = LocksIdle
    /\ \E base \in BackoffBases, max_delay \in BackoffMaxes :
         bk = [base |-> base, max_delay |-> max_delay, failure_count |-> 0, backoff |-> 0,
               previous |-> 0, sleep_time |-> 0]

BackoffNext ==
    \/ BackoffFailure
    \/ BackoffSuccess

BackoffSpec == BackoffInit /\ [][BackoffNext]_vars

(* ======================= persist_batch on its own ====================== *)

(* the batches handed to persist_batch *)
PersistBatches == {<<>>, <<2, 1>>}

(* persist_batch(batch) at wall-clock time pst.clock (line 48) *)
PersistCall(b, fault) ==
    /\ pst.calls < MaxPersistCalls
    /\ LET db == persist_batch(store, sqlite_sequence, b, pst.clock, fault, max_batches)
       IN /\ store' = db.rows
          /\ sqlite_sequence' = db.sqlite_sequence
          /\ pst' = [pst EXCEPT !.clock = pst.clock + 1,
                                !.calls = pst.calls + 1,
                                !.inserts = pst.inserts + (db.sqlite_sequence - sqlite_sequence),
                                !.clean = pst.clean /\ (b = <<>> \/ fault = "none"),
                                !.batch = b,
                                !.fault = fault,
                                !.at = pst.clock,
                                !.before = store,
                                !.seq_before = sqlite_sequence,
                                !.after = db.rows]
    /\ UNCHANGED <<cfgVars, threadVars, now, bk, rec, tc, orch, fac, fl, life, lk>>

(* the wall clock of the host is set back between two calls *)
ClockSetBack ==
    /\ pst.set_backs < MaxSetBacks
    /\ pst.clock >= 2
    /\ pst' = [pst EXCEPT !.clock = pst.clock - 2, !.set_backs = pst.set_backs + 1]
    /\ UNCHANGED <<pipelineVars, bk, rec, tc, orch, fac, fl, life, lk>>

PruneInit ==
    /\ DATABASE_ENABLED = FALSE
    /\ DB_TYPE = "none"
    /\ PERSIST_UNSENT_ON_ALERT = FALSE
    /\ alert_handler = "None"
    /\ max_batches \in 1..MaxBatchesCfg
    /\ PipelineStart
    /\ AuxIdle

PruneNext ==
    \/ \E b \in PersistBatches, fault \in PersistFaults : PersistCall(b, fault)
    \/ ClockSetBack

PruneSpec == PruneInit /\ [][PruneNext]_vars

(* ======================= recovery on its own =========================== *)

(* what db_adapter.write_points answers: it returns, or it raises an        *)
(* exception with a message, given by its words                             *)
Returned == [raised |-> FALSE, message |-> <<>>]

Raised(msg) == [raised |-> TRUE, message |-> msg]

PermanentMessages == {<<"HTTP", "400">>, <<"Bad", "Request">>, <<"Invalid", "field", "type">>}
TransientMessages == {<<"connection", "refused">>}

WriteResults(adapter) ==
    IF adapter = "always_succeeds" THEN {Returned}
    ELSE {Returned} \cup {Raised(msg) : msg \in PermanentMessages \cup TransientMessages}

(* str(e).lower() *)
lower(w) ==
    CASE w = "Bad" -> "bad"
      [] w = "Request" -> "request"
      [] w = "Invalid" -> "invalid"
      [] w = "HTTP" -> "http"
      [] OTHER -> w

str_lower(msg) == [k \in 1..Len(msg) |-> lower(msg[k])]

(* words in msg *)
Contains(msg, words) ==
    \E k \in 0..(Len(msg) - Len(words)) : SubSeq(msg, k + 1, k + Len(words)) = words

(* no failure is taken for a rejection *)
IsBadRequestNever(e) == FALSE

(* lines 121-122: "400" in error_msg or "bad request" in error_msg or       *)
(* "invalid" in error_msg                                                   *)
IsBadRequest(e) ==
    LET error_msg == str_lower(e)
    IN \/ Contains(error_msg, <<"400">>)
       \/ Contains(error_msg, <<"bad", "request">>)
       \/ Contains(error_msg, <<"invalid">>)

(* the rows in rowid order *)
RecoveryOrderByRowid(rows) == rows

(* line 95: SELECT id, batch_json FROM unsent_batches ORDER BY persisted_at ASC *)
RecoveryOrder(rows) == order_by_persisted_at(rows)

(* lines 108-133: each except branch ends the iteration, not the loop *)
AfterFailedRow(i, n) == i + 1

(* lines 91-99: the counters, the SELECT, fetchall *)
RecoverStart ==
    /\ rec.pc = "idle"
    /\ rec.passes < MaxPasses
    /\ \E adapter \in {"always_succeeds", "real"} :
         rec' = [rec EXCEPT !.pc = "rows",
                            !.adapter = adapter,
                            !.rows = RecoveryOrder(store),
                            !.i = 1,
                            !.success_count = 0,
                            !.failure_count = 0,
                            !.before = store,
                            !.attempts = <<>>]
    /\ UNCHANGED <<pipelineVars, bk, pst, tc, orch, fac, fl, life, lk>>

(* lines 99-133: one iteration of the loop over the fetched rows *)
RecoverRow ==
    /\ rec.pc = "rows"
    /\ rec.i <= Len(rec.rows)
    /\ LET row == rec.rows[rec.i]
           n == Len(rec.rows)
       IN IF ~json_valid(row.batch_json)
            THEN (* lines 108-115: except json.JSONDecodeError *)
                 /\ store' = delete_rows(store, {row.id})
                 /\ rec' = [rec EXCEPT !.failure_count = rec.failure_count + 1,
                                       !.i = AfterFailedRow(rec.i, n),
                                       !.attempts = Append(rec.attempts,
                                           [row |-> row, called |-> FALSE,
                                            written |-> <<>>, answer |-> Returned])]
            ELSE \E answer \in WriteResults(rec.adapter) :
                 LET batch_read == json_loads(row.batch_json)
                     done == Append(rec.attempts,
                                    [row |-> row, called |-> TRUE, written |-> batch_read,
                                     answer |-> answer])
                 IN IF ~answer.raised
                      THEN (* lines 102-107 *)
                           /\ store' = delete_rows(store, {row.id})
                           /\ rec' = [rec EXCEPT !.success_count = rec.success_count + 1,
                                                 !.i = rec.i + 1,
                                                 !.attempts = done]
                      ELSE IF IsBadRequest(answer.message)
                             THEN (* lines 122-130 *)
                                  /\ store' = delete_rows(store, {row.id})
                                  /\ rec' = [rec EXCEPT
                                               !.failure_count = rec.failure_count + 1,
                                               !.i = AfterFailedRow(rec.i, n),
                                               !.attempts = done]
                             ELSE (* lines 131-133 *)
                                  /\ store' = store
                                  /\ rec' = [rec EXCEPT
                                               !.failure_count = rec.failure_count + 1,
                                               !.i = AfterFailedRow(rec.i, n),
                                               !.attempts = done]
    /\ UNCHANGED <<cfgVars, threadVars, now, sqlite_sequence, bk, pst, tc, orch, fac, fl, life, lk>>

(* line 136: return success_count, failure_count *)
RecoverReturn ==
    /\ rec.pc = "rows"
    /\ rec.i > Len(rec.rows)
    /\ rec' = [rec EXCEPT !.pc = "idle",
                          !.result = <<rec.success_count, rec.failure_count>>,
                          !.after = store,
                          !.passes = rec.passes + 1]
    /\ UNCHANGED <<pipelineVars, bk, pst, tc, orch, fac, fl, life, lk>>

(* between two runs of the program the text of a row is cut short *)
CorruptRow ==
    /\ rec.pc = "idle"
    /\ rec.corrupt < MaxCorrupt
    /\ \E k \in 1..Len(store) :
         /\ json_valid(store[k].batch_json)
         /\ store' = [store EXCEPT ![k].batch_json =
                          SubSeq(store[k].batch_json, 1, Len(store[k].batch_json) - 1)]
    /\ rec' = [rec EXCEPT !.corrupt = rec.corrupt + 1]
    /\ UNCHANGED <<cfgVars, threadVars, now, sqlite_sequence, bk, pst, tc, orch, fac, fl, life, lk>>

(* the batches that the writer persisted in earlier runs *)
RecoverBatches == {<<2, 1>>}

RecoverInit ==
    /\ DATABASE_ENABLED = TRUE
    /\ DB_TYPE = "influxdb"
    /\ PERSIST_UNSENT_ON_ALERT = TRUE
    /\ alert_handler = "None"
    /\ max_batches = MaxRecoverRows
    /\ PipelineStart
    /\ AuxIdle

(* main.py:239 runs the recovery before the threads are started, so no      *)
(* batch is persisted during a pass                                         *)
RecoverNext ==
    \/ /\ rec.pc = "idle"
       /\ pst.calls < MaxRecoverRows
       /\ \E b \in RecoverBatches : PersistCall(b, "none")
    \/ rec.pc = "idle" /\ ClockSetBack
    \/ CorruptRow
    \/ RecoverStart
    \/ RecoverRow
    \/ RecoverReturn

RecoverSpec == RecoverInit /\ [][RecoverNext]_vars

(* ======================= thread_control on its own ===================== *)

(* register_thread (lines 35-47): a name that is not in the registry is     *)
(* ignored; the handle is that of a thread that was started                 *)
RegisterThread(name) ==
    /\ tc.lock = "free"
    /\ tc' = IF name \in KnownNames
               THEN [tc EXCEPT !.threads[name] = "alive"]
               ELSE tc
    /\ UNCHANGED <<pipelineVars, bk, pst, rec, orch, fac, fl, life, lk>>

(* register_restart_callback, register_start_callback,                      *)
(* register_stop_callback (lines 50-83)                                     *)
RegisterCallback(op, name) ==
    /\ name \in KnownNames
    /\ tc.lock = "free"
    /\ tc' = [tc EXCEPT !.callbacks[op] = tc.callbacks[op] \cup {name}]
    /\ UNCHANGED <<pipelineVars, bk, pst, rec, orch, fac, fl, life, lk>>

(* a registered thread ends: thread.is_alive() becomes False *)
ThreadExits(name) ==
    /\ name \in KnownNames
    /\ tc.threads[name] = "alive"
    /\ tc' = [tc EXCEPT !.threads[name] = "dead"]
    /\ UNCHANGED <<pipelineVars, bk, pst, rec, orch, fac, fl, life, lk>>

(* start on a live thread goes on to the callback *)
StartRefusedNever(h) == FALSE

(* line 159: thread is not None and thread.is_alive() *)
StartRefused(h) == h = "alive"

(* line 193: thread is None or not thread.is_alive() *)
StopRefused(h) == h # "alive"

(* the test of the handle, per operation; restart_thread only logs when the *)
(* thread is still running (lines 125-126)                                  *)
HandleRefused(op, h) ==
    CASE op = "start" -> StartRefused(h)
      [] op = "stop" -> StopRefused(h)
      [] OTHER -> FALSE

RefusalMessage(op) == IF op = "start" THEN "already running" ELSE "is not running"

(* the callback is called inside the with block *)
LockAtCallbackHeld == "held"

(* lines 128-130, 162-164, 196-198: the with block ends with the lookup of  *)
(* the callback, which is called after it                                   *)
LockAtCallback == "free"

(* a return inside the with block releases the lock (lines 117-121,         *)
(* 151-160, 185-194)                                                        *)
LockAtReturn == "free"

(* the block under _thread_lock of restart_thread (116-128), start_thread   *)
(* (150-162) and stop_thread (184-196): the lock is acquired; the           *)
(* prerequisites and the lookup of the callback                             *)
CheckUnderLock(op, name) ==
    LET refuse(msg) ==
          [tc EXCEPT !.call = [pc |-> "idle", op |-> op, name |-> name],
                     !.lock = LockAtReturn,
                     !.result = [ok |-> FALSE, message |-> msg, invoked |-> FALSE,
                                 callback_raised |-> FALSE, outcome |-> "returned"]]
    IN IF name \notin KnownNames THEN refuse("Unknown thread")
       ELSE IF name \notin tc.callbacks[op] THEN refuse("no callback registered")
       ELSE IF HandleRefused(op, tc.threads[name]) THEN refuse(RefusalMessage(op))
       ELSE [tc EXCEPT !.call = [pc |-> "callback", op |-> op, name |-> name],
                       !.lock = LockAtCallback]

(* restart_thread, start_thread or stop_thread is called: the lock is       *)
(* acquired and the block runs                                              *)
ControlCheck(op, name) ==
    /\ tc.call.pc = "idle"
    /\ tc.lock = "free"
    /\ tc' = CheckUnderLock(op, name)
    /\ UNCHANGED <<pipelineVars, bk, pst, rec, orch, fac, fl, life, lk>>

(* the handle of the thread that a start or restart callback has started    *)
(* and registered, as is_alive() finds it when the callback has returned:   *)
(* database_writer returns at once when the database is disabled            *)
(* (database_writer.py:161-164), so that its thread is found running or     *)
(* ended; the other targets loop                                            *)
NewThread(name, enabled) ==
    IF name = "database_writer" /\ ~enabled THEN {"alive", "dead"} ELSE {"alive"}

(* what the callback leaves in the registry when it returns: the start and  *)
(* restart callbacks register a new thread (orchestrator.py:109-121,        *)
(* 259-276); the stop callback sets the stop event and joins for 5 s, after *)
(* which the thread has ended or is still running (orchestrator.py:250-257) *)
CallbackEffects(op, name, h, enabled) ==
    IF op = "stop" THEN {h, "dead"} ELSE NewThread(name, enabled)

(* the start and restart callbacks call register_thread, which takes the    *)
(* lock (orchestrator.py:119, 274, 287; thread_control.py:42); the stop     *)
(* callback does not (orchestrator.py:250-257)                              *)
CallbackRegisters(op) == op # "stop"

(* the exception would leave the operation *)
OnCallbackRaisedPropagates == "raised"

(* lines 134-137, 168-171, 202-205: except Exception returns the pair       *)
(* (False, error_msg)                                                       *)
OnCallbackRaised == "returned"

(* get_thread_status (lines 86-103): the snapshot of the registry *)
get_thread_status(threads, callbacks) ==
    [n \in KnownNames |-> [running |-> threads[n] = "alive",
                           exists |-> threads[n] # "None",
                           restartable |-> n \in callbacks["restart"]]]

(* the call of the callback (lines 130-137, 164-171, 198-205): it raises    *)
(* and the exception is caught, or it returns; a callback that registers a  *)
(* thread waits for the lock, which is not reentrant (line 32)              *)
ControlCallback ==
    /\ tc.call.pc = "callback"
    /\ LET op == tc.call.op
           name == tc.call.name
       IN \E raised \in BOOLEAN :
            IF raised
              THEN tc' = [tc EXCEPT !.call.pc = "idle",
                                    !.result = [ok |-> FALSE, message |-> "Failed",
                                                invoked |-> TRUE,
                                                callback_raised |-> TRUE,
                                                outcome |-> OnCallbackRaised]]
              ELSE /\ CallbackRegisters(op) => tc.lock = "free"
                   /\ \E h \in CallbackEffects(op, name, tc.threads[name],
                                               DATABASE_ENABLED) :
                        tc' = [tc EXCEPT !.call.pc = "idle",
                                         !.threads[name] = h,
                                         !.result = [ok |-> TRUE,
                                                     message |-> "successfully",
                                                     invoked |-> TRUE,
                                                     callback_raised |-> FALSE,
                                                     outcome |-> "returned"]]
    /\ UNCHANGED <<pipelineVars, bk, pst, rec, orch, fac, fl, life, lk>>

(* the registry is exercised with the database enabled and disabled *)
ControlInit ==
    /\ DATABASE_ENABLED \in BOOLEAN
    /\ DB_TYPE = "none"
    /\ PERSIST_UNSENT_ON_ALERT = FALSE
    /\ alert_handler = "None"
    /\ max_batches = MAX_PERSISTED_BATCHES
    /\ PipelineStart
    /\ AuxIdle

ControlNext ==
    \/ \E name \in Names : RegisterThread(name)
    \/ \E op \in Operations, name \in Names : RegisterCallback(op, name)
    \/ \E name \in Names : ThreadExits(name)
    \/ \E op \in Operations, name \in Names : ControlCheck(op, name)
    \/ ControlCallback

ControlSpec == ControlInit /\ [][ControlNext]_vars

(* ======================= the supervisory loop on its own =============== *)

MaxRequests == 2

(* the workers whose handles the loop examines first (lines 400-404) *)
CoreWorkers == {"database_writer", "data_collector"}

(* orchestrator.start() (lines 66-87): the restart callbacks of the         *)
(* workers, the start and stop callbacks of the writer, and the core        *)
(* threads started and registered                                           *)
OrchestratorStarted(writer) ==
    [ControlIdle EXCEPT
       !.threads = [n \in KnownNames |-> IF n = "database_writer" THEN writer ELSE "alive"],
       !.callbacks = [op \in Operations |->
                        IF op = "restart" THEN KnownNames ELSE {"database_writer"}]]

(* request_thread_restart, request_thread_start, request_thread_stop        *)
(* (shared_state.py:243-287): the map gets an entry for the name; its       *)
(* value, the time of the request, is read by nobody: a second request for  *)
(* the same name overwrites the entry                                       *)
RequestThread(op, name) ==
    /\ orch.queued < MaxRequests
    /\ orch' = [orch EXCEPT !.requests[op] = @ \cup {name},
                            !.fresh[op] = @ \cup {name},
                            !.queued = @ + 1]
    /\ UNCHANGED <<pipelineVars, bk, pst, rec, tc, fac, fl, life, lk>>

(* the request stays in the map *)
RequestsAfterClearKept(map, name) == map

(* clear_thread_restart_request, clear_thread_start_request,                *)
(* clear_thread_stop_request (shared_state.py:310-343)                      *)
RequestsAfterClear(map, name) == map \ {name}

(* the three loops of one pass, in the order of lines 368-398 *)
PhaseAfter(op) ==
    CASE op = "restart" -> "start"
      [] op = "start" -> "stop"
      [] OTHER -> "health"

(* lines 365-368: get_thread_status(), then the copy of the restart         *)
(* requests that the first loop iterates; critical lists the events of the  *)
(* pass that has just ended                                                 *)
MonitorPoll ==
    /\ orch.pc = "poll"
    /\ tc.lock = "free"
    /\ orch' = [orch EXCEPT !.pc = "restart",
                            !.pending = orch.requests["restart"],
                            !.calls = [n \in Names |-> 0],
                            !.critical = {}]
    /\ UNCHANGED <<pipelineVars, bk, pst, rec, tc, fac, fl, life, lk>>

(* lines 369-371, 380-382, 391-393: the operation is called for the next    *)
(* name of the copy                                                         *)
MonitorCall ==
    /\ orch.pc \in Operations
    /\ orch.current = "none"
    /\ tc.call.pc = "idle"
    /\ tc.lock = "free"
    /\ \E name \in orch.pending :
         /\ tc' = CheckUnderLock(orch.pc, name)
         /\ orch' = [orch EXCEPT !.current = name, !.calls[name] = @ + 1,
                                 !.fresh[orch.pc] = @ \ {name}]
    /\ UNCHANGED <<pipelineVars, bk, pst, rec, fac, fl, life, lk>>

(* lines 372-376, 383-387, 394-398: the operation has returned; its result  *)
(* is logged and the request is cleared.  stopped lists the workers that    *)
(* were stopped by a stop request and not started since.                    *)
MonitorClear ==
    /\ orch.pc \in Operations
    /\ orch.current # "none"
    /\ tc.call.pc = "idle"
    /\ LET op == orch.pc
           name == orch.current
       IN orch' = [orch EXCEPT
                     !.requests[op] = RequestsAfterClear(@, name),
                     !.fresh[op] = @ \ {name},
                     !.pending = @ \ {name},
                     !.current = "none",
                     !.stopped = IF ~tc.result.ok THEN @
                                 ELSE IF op = "stop" THEN @ \cup {name}
                                 ELSE @ \ {name}]
    /\ UNCHANGED <<pipelineVars, bk, pst, rec, tc, fac, fl, life, lk>>

(* the loop over the copy is over; the next map is copied (lines 379, 390)  *)
MonitorPhaseEnd ==
    /\ orch.pc \in Operations
    /\ orch.current = "none"
    /\ orch.pending = {}
    /\ LET next == PhaseAfter(orch.pc)
       IN orch' = [orch EXCEPT !.pc = next,
                               !.pending = IF next \in Operations
                                             THEN orch.requests[next] ELSE {},
                               !.calls = [n \in Names |-> 0]]
    /\ UNCHANGED <<pipelineVars, bk, pst, rec, tc, fac, fl, life, lk>>

(* lines 401-404: the handle is set and is_alive() is False; the handles of *)
(* the orchestrator are those it has registered                             *)
FoundExited(h) == h = "dead"

(* lines 400-419: the critical events of this pass, then time.sleep(1) *)
MonitorHealth ==
    /\ orch.pc = "health"
    /\ orch' = [orch EXCEPT !.pc = "poll",
                            !.critical = {n \in CoreWorkers : FoundExited(tc.threads[n])}]
    /\ UNCHANGED <<pipelineVars, bk, pst, rec, tc, fac, fl, life, lk>>

(* the steps of the thread that runs monitor() *)
MonitorStep ==
    \/ MonitorPoll
    \/ MonitorCall
    \/ ControlCallback
    \/ MonitorClear
    \/ MonitorPhaseEnd
    \/ MonitorHealth

(* orchestrator.start() has returned and monitor() begins; the database is  *)
(* disabled, so that a writer thread may be found ended as soon as it is    *)
(* started (with the database enabled it is found ended after ThreadExits)  *)
MonitorInit ==
    /\ PipelineAtRest
    /\ bk = [base |-> 0, max_delay |-> 0, failure_count |-> 0, backoff |-> 0,
             previous |-> 0, sleep_time |-> 0]
    /\ pst = PersistIdle
    /\ rec = RecoverIdle
    /\ \E writer \in NewThread("database_writer", DATABASE_ENABLED) :
         tc = OrchestratorStarted(writer)
    /\ orch = MonitorIdle
    /\ fac = FactoryIdle
    /\ fl = FlushIdle
    /\ life = LifeIdle
    /\ lk = LocksIdle

MonitorNext ==
    \/ \E op \in Operations, name \in Names : RequestThread(op, name)
    \/ \E name \in CoreWorkers : ThreadExits(name)
    \/ MonitorStep

MonitorSpec == MonitorInit /\ [][MonitorNext]_vars

(* monitor() runs in the main thread, which is scheduled *)
MonitorFairSpec == MonitorSpec /\ WF_vars(MonitorStep)

(* ======================= the adapter factory on its own ================ *)

(* type strings given to the factory: the documented types, spellings of    *)
(* them in other cases, the alias of none, and strings that name no backend *)
TypeStrings ==
    {"influxdb", "InfluxDB", "prometheus", "timescaledb", "victoriametrics",
     "VictoriaMetrics", "none", "NONE", "disabled", "mysql", "influx", ""}

(* the value of config.get("version", "2") (factory.py:36) *)
Versions == {"absent", "1", "2", "3", "4"}

(* batches given to write_points *)
FactoryBatches == {<<>>, <<1>>, <<1, 2>>}

(* factory.py:27: db_type.lower(), on the type strings *)
type_lower(t) ==
    CASE t = "InfluxDB" -> "influxdb"
      [] t = "VictoriaMetrics" -> "victoriametrics"
      [] t = "NONE" -> "none"
      [] OTHER -> t

(* the alias is not accepted *)
IsNoneTypeOnly(t) == t = "none"

(* factory.py:29: db_type == "none" or db_type == "disabled" *)
IsNoneType(t) == t = "none" \/ t = "disabled"

(* factory.py:36-51: the InfluxDB adapter class for the version *)
InfluxAdapter(version) ==
    CASE version \in {"absent", "2"} -> "InfluxDB2Adapter"
      [] version = "1" -> "InfluxDBAdapter"
      [] version = "3" -> "InfluxDB3Adapter"
      [] OTHER -> "None"

(* factory.py:27-71: the adapter class returned, or the error raised; the   *)
(* import of a backend's adapter raises ImportError when its dependencies   *)
(* are not installed                                                        *)
create_database_adapter(db_type, version, installed) ==
    LET t == type_lower(db_type)
        made(class) == IF installed
                         THEN [result |-> "returned", adapter |-> class, error |-> "None"]
                         ELSE [result |-> "raised", adapter |-> "None",
                               error |-> "ImportError"]
        raised(e) == [result |-> "raised", adapter |-> "None", error |-> e]
    IN IF IsNoneType(t)
         THEN [result |-> "returned", adapter |-> "NoneAdapter", error |-> "None"]
       ELSE IF t = "influxdb"
         THEN IF InfluxAdapter(version) # "None" THEN made(InfluxAdapter(version))
              ELSE raised("ValueError: Unknown InfluxDB version")
       ELSE IF t = "prometheus" THEN made("PrometheusAdapter")
       ELSE IF t = "timescaledb" THEN made("TimescaleDBAdapter")
       ELSE IF t = "victoriametrics" THEN made("VictoriaMetricsAdapter")
       ELSE raised("ValueError: Unknown database type")

(* a call of the factory *)
FactoryCreate(db_type, version, installed) ==
    /\ fac.result = "not_called"
    /\ LET r == create_database_adapter(db_type, version, installed)
       IN fac' = [fac EXCEPT !.db_type = db_type, !.version = version,
                             !.installed = installed, !.result = r.result,
                             !.adapter = r.adapter, !.error = r.error]
    /\ UNCHANGED <<pipelineVars, bk, pst, rec, tc, orch, fl, life, lk>>

(* NoneAdapter.write_points (none_adapter.py:26-32): the points are logged  *)
(* and nothing is kept; the call returns None                               *)
NoneWritePoints(points) ==
    /\ fac.adapter = "NoneAdapter"
    /\ fac' = [fac EXCEPT !.call = "write_points", !.points = points,
                          !.returned = "None", !.stored = fac.stored]
    /\ UNCHANGED <<pipelineVars, bk, pst, rec, tc, orch, fl, life, lk>>

(* NoneAdapter.test_connection (none_adapter.py:34-40) *)
NoneTestConnection ==
    /\ fac.adapter = "NoneAdapter"
    /\ fac' = [fac EXCEPT !.call = "test_connection", !.points = <<>>,
                          !.returned = "True"]
    /\ UNCHANGED <<pipelineVars, bk, pst, rec, tc, orch, fl, life, lk>>

(* NoneAdapter.close (none_adapter.py:42-44) *)
NoneClose ==
    /\ fac.adapter = "NoneAdapter"
    /\ fac' = [fac EXCEPT !.call = "close", !.points = <<>>, !.returned = "None"]
    /\ UNCHANGED <<pipelineVars, bk, pst, rec, tc, orch, fl, life, lk>>

FactoryInit ==
    /\ PipelineAtRest
    /\ AuxIdle

FactoryNext ==
    \/ \E db_type \in TypeStrings, version \in Versions, installed \in BOOLEAN :
         FactoryCreate(db_type, version, installed)
    \/ \E points \in FactoryBatches : NoneWritePoints(points)
    \/ NoneTestConnection
    \/ NoneClose

FactorySpec == FactoryInit /\ [][FactoryNext]_vars

(* ======================= the flush attempts on their own =============== *)

(* run_simulation (simulate_influx_failure.py:84-143): eight points are     *)
(* enqueued for a writer with BATCH_SIZE = 2 whose adapter fails a number   *)
(* of write_points calls before it succeeds                                 *)
ScenarioPoints == 8
ScenarioBatchSize == 2
MaxFailuresBeforeSuccess == 3
MaxThreshold == 4

(* BACKOFF_BASE and BACKOFF_MAX: the defaults (database_writer.py:34-35)    *)
(* and a configuration in which the cap is reached at the second failure    *)
FlushBackoffs == {<<2, 300>>, <<1, 2>>}

(* no alert handler, one that returns, one that raises *)
Handlers == {"None", "handler", "raising_handler"}

(* the backend of the failing adapter *)
ScenarioDbType == "influxdb"

(* the adapter succeeds one call earlier *)
AdapterFailsOneLess(attempt, failures) == attempt < failures

(* FakeClient.write_points (simulate_influx_failure.py:104-110):            *)
(* if self.attempts <= self.failures_before_success: raise                  *)
AdapterFails(attempt, failures) == attempt <= failures

(* the notification follows any failure *)
WasInFailureStateByCount(fc, al) == fc # 0

(* line 210: was_in_failure_state = alerted *)
WasInFailureState(fc, al) == al

(* the exception of the handler ends the thread *)
AfterHandlerRaisedCrashes == "crashed"

(* lines 233-236: except Exception logs the exception of the handler and    *)
(* the branch goes on                                                       *)
AfterHandlerRaised == "continue"

(* lines 190-196: the loop test, then write_queue.get(timeout=1) gives the  *)
(* next point, which is appended to the batch, or raises queue.Empty        *)
FlushGet ==
    /\ fl.pc = "get"
    /\ fl.queue # <<>> \/ fl.batch # <<>>
    /\ fl' = IF fl.queue # <<>>
               THEN [fl EXCEPT !.pc = "check",
                               !.batch = BatchAppend(fl.batch, Head(fl.queue)),
                               !.queue = Tail(fl.queue)]
               ELSE [fl EXCEPT !.pc = "check"]
    /\ UNCHANGED <<pipelineVars, bk, pst, rec, tc, orch, fac, life, lk>>

(* lines 198-200: the flush trigger; the flush interval has elapsed or not  *)
FlushCheck ==
    /\ fl.pc = "check"
    /\ \E elapsed \in BOOLEAN :
         fl' = IF (Len(fl.batch) >= ScenarioBatchSize \/ elapsed) /\ BatchTruthy(fl.batch)
                 THEN [fl EXCEPT !.pc = "write"]
                 ELSE [fl EXCEPT !.pc = "get"]
    /\ UNCHANGED <<pipelineVars, bk, pst, rec, tc, orch, fac, life, lk>>

(* lines 205-218: write_points returns *)
FlushWriteOk ==
    /\ fl.pc = "write"
    /\ ~AdapterFails(fl.attempts + 1, fl.failures_before_success)
    /\ LET was_in_failure_state == WasInFailureState(fl.failure_count, fl.alerted)
       IN fl' = [fl EXCEPT
                   !.pc = "get",
                   !.attempts = @ + 1,
                   !.written = @ \o fl.batch,
                   !.batch = BatchAfterSuccess(fl.batch),
                   !.failure_count = FailureCountAfterSuccess(fl.failure_count),
                   !.alerted = AlertedAfterSuccess(fl.failure_count, fl.alerted),
                   !.restored = IF was_in_failure_state THEN @ + 1 ELSE @,
                   !.last = "ok"]
    /\ UNCHANGED <<pipelineVars, bk, pst, rec, tc, orch, fac, life, lk>>

(* lines 219-248: write_points raises; the alert with the handler and the   *)
(* persisted batch when it is due, then the backoff and the sleep           *)
FlushWriteFail ==
    /\ fl.pc = "write"
    /\ AdapterFails(fl.attempts + 1, fl.failures_before_success)
    /\ LET fc == fl.failure_count + 1
           due == AlertDueAt(fl.threshold, fc, fl.alerted)
           called == due /\ fl.handler # "None"
           raised == called /\ fl.handler = "raising_handler"
           backoff == BackoffDelay(fl.base, fl.max_delay, fc)
           counted == [fl EXCEPT
                         !.attempts = @ + 1,
                         !.failed = @ + 1,
                         !.failure_count = fc,
                         !.alerts = IF due THEN @ + 1 ELSE @,
                         !.alert_at = IF due THEN fc ELSE @,
                         !.handler_calls = IF called THEN @ + 1 ELSE @,
                         !.handler_raised = IF raised THEN @ + 1 ELSE @,
                         !.last = "failed"]
       IN IF raised /\ AfterHandlerRaised = "crashed"
            THEN fl' = [counted EXCEPT !.pc = "crashed"]
            ELSE \E jitter \in Jitter(backoff) :
                   fl' = [counted EXCEPT
                            !.pc = "get",
                            !.persisted = IF due /\ PersistDue(fl.persist, ScenarioDbType)
                                            THEN Append(@, fl.batch) ELSE @,
                            !.alerted = IF due THEN TRUE ELSE @,
                            !.batch = BatchAfterFailure(fl.batch),
                            !.delays = Append(@, backoff + jitter)]
    /\ UNCHANGED <<pipelineVars, bk, pst, rec, tc, orch, fac, life, lk>>

(* the queue is drained and the batch is flushed: the run is stopped *)
FlushEnd ==
    /\ fl.pc = "get"
    /\ fl.queue = <<>> /\ fl.batch = <<>>
    /\ fl' = [fl EXCEPT !.pc = "done"]
    /\ UNCHANGED <<pipelineVars, bk, pst, rec, tc, orch, fac, life, lk>>

FlushInit ==
    /\ PipelineAtRest
    /\ bk = [base |-> 0, max_delay |-> 0, failure_count |-> 0, backoff |-> 0,
             previous |-> 0, sleep_time |-> 0]
    /\ pst = PersistIdle
    /\ rec = RecoverIdle
    /\ tc = ControlIdle
    /\ orch = MonitorIdle
    /\ fac = FactoryIdle
    /\ life = LifeIdle
    /\ lk = LocksIdle
    /\ \E threshold \in 1..MaxThreshold, persist \in BOOLEAN, handler \in Handlers,
          backoff \in FlushBackoffs, failures \in 0..MaxFailuresBeforeSuccess :
         fl = [FlushIdle EXCEPT !.pc = "get", !.threshold = threshold,
                                !.persist = persist, !.handler = handler,
                                !.base = backoff[1], !.max_delay = backoff[2],
                                !.failures_before_success = failures,
                                !.queue = [k \in 1..ScenarioPoints |-> k]]

FlushNext ==
    \/ FlushGet
    \/ FlushCheck
    \/ FlushWriteOk
    \/ FlushWriteFail
    \/ FlushEnd

FlushSpec == FlushInit /\ [][FlushNext]_vars

(* ======================= the threads of the orchestrator =============== *)

(* The main thread runs monitor() and, through thread_control, the start,   *)
(* stop and restart callbacks of the writer and the stop callback of the    *)
(* heating control, and at the end stop(); the writer threads, the          *)
(* collector and the heating control run beside it.  Writer threads are     *)
(* numbered in the order of their creation; 0 stands for None.              *)

LifeNames == {"database_writer", "heating_control"}

(* orchestrator.start() has returned (lines 66-107): the writer and the     *)
(* collector are started and registered, the heating control when it is     *)
(* enabled in the configuration                                             *)
LifeStarted(heating_enabled) ==
    [LifeIdle EXCEPT
       !.writer_thread = 1,
       !.threads = [database_writer |-> 1, data_collector |-> "thread",
                    heating_control |-> IF heating_enabled THEN "thread" ELSE "absent"],
       !.registry = [database_writer |-> 1,
                     heating_control |-> IF heating_enabled THEN "thread" ELSE "None"],
       !.w = [k \in 1..MaxWriters |-> IF k = 1 THEN "start" ELSE "unborn"],
       !.created = 1,
       !.collector = "alive",
       !.heating = IF heating_enabled THEN "alive" ELSE "none",
       !.main = "idle"]

(* a reference to a writer thread as is_alive() and the test for None see it *)
WriterHandle(w, k) ==
    IF k = 0 THEN "None" ELSE IF w[k] = "exited" THEN "dead" ELSE "alive"

(* a reference to the heating thread *)
HeatingHandle(heating, ref) ==
    IF ref # "thread" THEN "None" ELSE IF heating = "alive" THEN "alive" ELSE "dead"

(* the handle that thread_control holds for the name *)
RegisteredHandle(name) ==
    IF name = "database_writer"
      THEN WriterHandle(life.w, life.registry.database_writer)
      ELSE HeatingHandle(life.heating, life.registry.heating_control)

(* the first statement of the callback of the operation (orchestrator.py:   *)
(* 244-276, 328-333)                                                        *)
FirstStep(op, name) ==
    CASE name = "heating_control" -> "stop_heating"
      [] op = "start" -> "new_thread"
      [] OTHER -> "set_event"

(* restart_thread, start_thread or stop_thread called by the supervisory    *)
(* loop (orchestrator.py:371, 382, 393): the operation is refused under the *)
(* lock (thread_control.py:116-128, 150-162, 184-196) or its callback       *)
(* begins.  The writer has the three callbacks; of the heating control the  *)
(* stop callback is modelled.                                               *)
LifeCall(op, name) ==
    /\ life.main = "idle"
    /\ name = "heating_control" => op = "stop"
    /\ op # "stop" => life.created < MaxWriters
    /\ life' = IF HandleRefused(op, RegisteredHandle(name))
                 THEN [life EXCEPT !.result = [op |-> op, name |-> name, ok |-> FALSE,
                                               outcome |-> "returned"]]
                 ELSE [life EXCEPT !.main = FirstStep(op, name), !.op = op,
                                   !.name = name]
    /\ UNCHANGED <<pipelineVars, bk, pst, rec, tc, orch, fac, fl, lk>>

(* lines 253-254 and 262-263: self._writer_stop_event.set(), then the test  *)
(* of self._writer_thread                                                   *)
LifeSetEvent ==
    /\ life.main = "set_event"
    /\ life' = [life EXCEPT
                  !.writer_stop_event = TRUE,
                  !.main = IF WriterHandle(life.w, life.writer_thread) = "alive"
                             THEN "join"
                             ELSE IF life.op = "stop" THEN "table_none" ELSE "new_thread"]
    /\ UNCHANGED <<pipelineVars, bk, pst, rec, tc, orch, fac, fl, lk>>

(* join(timeout) returns without the thread having ended when the time is   *)
(* over: the writer is in the sleep of a backoff (database_writer.py:248),  *)
(* which reaches 8 s at the third failure with the defaults, or its stop    *)
(* event is not set, so that it does not leave its loop                     *)
JoinTimesOut(pc, stop) == pc = "sleep" \/ ~stop

(* lines 255 and 264: self._writer_thread.join(timeout=5.0), join(timeout=  *)
(* 2.0); the thread has ended or the time is over                           *)
LifeJoin ==
    /\ life.main = "join"
    /\ \/ life.w[life.writer_thread] = "exited"
       \/ JoinTimesOut(life.w[life.writer_thread], life.writer_stop_event)
    /\ life' = [life EXCEPT !.main = IF life.op = "stop" THEN "table_none"
                                     ELSE "new_thread"]
    /\ UNCHANGED <<pipelineVars, bk, pst, rec, tc, orch, fac, fl, lk>>

(* line 256: self._threads["database_writer"] = None; the callback returns  *)
(* and stop_thread returns (True, ...) (thread_control.py:198-201)          *)
LifeTableNone ==
    /\ life.main = "table_none"
    /\ life' = [life EXCEPT
                  !.threads.database_writer = 0,
                  !.main = "idle",
                  !.result = [op |-> life.op, name |-> life.name, ok |-> TRUE,
                              outcome |-> "returned"]]
    /\ UNCHANGED <<pipelineVars, bk, pst, rec, tc, orch, fac, fl, lk>>

(* lines 111-120 and 265-275: the event is cleared, a new thread is         *)
(* started, stored in self._writer_thread, registered and put in the table  *)
LifeNewThread ==
    /\ life.main = "new_thread"
    /\ life.created < MaxWriters
    /\ LET k == life.created + 1
       IN life' = [life EXCEPT
                     !.writer_stop_event = FALSE,
                     !.w[k] = "start",
                     !.created = k,
                     !.writer_thread = k,
                     !.registry.database_writer = k,
                     !.threads.database_writer = k,
                     !.main = "idle",
                     !.result = [op |-> life.op, name |-> life.name, ok |-> TRUE,
                                 outcome |-> "returned"]]
    /\ UNCHANGED <<pipelineVars, bk, pst, rec, tc, orch, fac, fl, lk>>

(* heating_control.stop_heating_control (lines 238-258): nothing when no    *)
(* thread is running; else the event of the module is set and the thread    *)
(* is joined, which ends at its loop test (line 134)                        *)
stop_heating_control(heating) == IF heating = "alive" THEN "exited" ELSE heating

(* lines 331-332: stop_heating_control(), then                              *)
(* self._threads["heating_control"] = None                                  *)
LifeStopHeating ==
    /\ life.main = "stop_heating"
    /\ life' = [life EXCEPT
                  !.heating = stop_heating_control(life.heating),
                  !.threads.heating_control = "None",
                  !.main = "idle",
                  !.result = [op |-> life.op, name |-> life.name, ok |-> TRUE,
                              outcome |-> "returned"]]
    /\ UNCHANGED <<pipelineVars, bk, pst, rec, tc, orch, fac, fl, lk>>

(* ThreadOrchestrator.stop(), line 430: self._stop_event.set() *)
LifeStop ==
    /\ life.main = "idle"
    /\ life' = [life EXCEPT !.stop_event = TRUE, !.stop_called = TRUE,
                            !.main = "stop_controls", !.op = "stop_all",
                            !.name = "none"]
    /\ UNCHANGED <<pipelineVars, bk, pst, rec, tc, orch, fac, fl, lk>>

(* lines 433-434: stop_heating_control(), stop_humidity_control() *)
LifeStopControls ==
    /\ life.main = "stop_controls"
    /\ life' = [life EXCEPT !.heating = stop_heating_control(life.heating),
                            !.main = "wait_database_writer"]
    /\ UNCHANGED <<pipelineVars, bk, pst, rec, tc, orch, fac, fl, lk>>

(* the entries of self._threads in the order of their insertion (lines 120, *)
(* 130, 95)                                                                 *)
NextEntry(main) ==
    CASE main = "wait_database_writer" -> "wait_data_collector"
      [] main = "wait_data_collector" -> "wait_heating_control"
      [] OTHER -> "ended"

(* the entry of the table that the loop of stop() is at *)
TableEntry(main) ==
    CASE main = "wait_database_writer" ->
           WriterHandle(life.w, life.threads.database_writer)
      [] main = "wait_data_collector" ->
           IF life.collector = "alive" THEN "alive" ELSE "dead"
      [] OTHER ->
           IF life.threads.heating_control = "absent" THEN "absent"
           ELSE HeatingHandle(life.heating, life.threads.heating_control)

(* the thread that stop() joins has ended or the 5 s are over *)
StopJoinReturns(main) ==
    main = "wait_database_writer" =>
        \/ life.w[life.threads.database_writer] = "exited"
        \/ JoinTimesOut(life.w[life.threads.database_writer], life.writer_stop_event)

(* lines 437-444: for name, thread in self._threads.items():                *)
(* thread.is_alive() raises AttributeError on an entry that is None; a      *)
(* thread that is alive is joined for 5 s; after the last entry stop()      *)
(* returns                                                                  *)
LifeStopWait ==
    /\ life.main \in {"wait_database_writer", "wait_data_collector",
                      "wait_heating_control"}
    /\ LET entry == TableEntry(life.main)
           next == NextEntry(life.main)
           ends(outcome) ==
               [life EXCEPT !.main = "ended",
                            !.result = [op |-> "stop_all", name |-> "none",
                                        ok |-> outcome = "returned",
                                        outcome |-> outcome]]
       IN IF entry = "None"
            THEN life' = ends("raised")
            ELSE /\ entry = "alive" => StopJoinReturns(life.main)
                 /\ life' = IF next = "ended" THEN ends("returned")
                            ELSE [life EXCEPT !.main = next]
    /\ UNCHANGED <<pipelineVars, bk, pst, rec, tc, orch, fac, fl, lk>>

(* the steps of the main thread *)
LifeMain ==
    \/ \E op \in Operations, name \in LifeNames : LifeCall(op, name)
    \/ LifeSetEvent
    \/ LifeJoin
    \/ LifeTableNone
    \/ LifeNewThread
    \/ LifeStopHeating
    \/ LifeStop
    \/ LifeStopControls
    \/ LifeStopWait

(* database_writer.py:171-188: the writer publishes writer_alive = True,    *)
(* creates its adapter and enters the loop                                  *)
LifeWriterBegin(k) ==
    /\ life.w[k] = "start"
    /\ life' = [life EXCEPT !.w[k] = "test", !.writer_alive = TRUE]
    /\ UNCHANGED <<pipelineVars, bk, pst, rec, tc, orch, fac, fl, lk>>

(* line 190: the loop test on the event that the thread was given, which    *)
(* is self._writer_stop_event (orchestrator.py:114, 268); when it fails the *)
(* adapter is closed and writer_alive = False is published (lines 250-257)  *)
LifeWriterTest(k) ==
    /\ life.w[k] = "test"
    /\ life' = IF LoopCondition(life.writer_stop_event, life.queue)
                 THEN [life EXCEPT !.w[k] = "get"]
                 ELSE [life EXCEPT !.w[k] = "exited", !.writer_alive = FALSE]
    /\ UNCHANGED <<pipelineVars, bk, pst, rec, tc, orch, fac, fl, lk>>

(* lines 191-248: a point is taken from the queue when there is one; then   *)
(* no flush is due or the flush succeeds, or the flush fails and the thread *)
(* sleeps for the backoff                                                   *)
LifeWriterGet(k) ==
    /\ life.w[k] = "get"
    /\ \E next \in {"test", "sleep"} :
         life' = [life EXCEPT !.w[k] = next,
                              !.queue = IF @ # <<>> THEN Tail(@) ELSE @]
    /\ UNCHANGED <<pipelineVars, bk, pst, rec, tc, orch, fac, fl, lk>>

(* line 248: time.sleep(sleep_time) returns *)
LifeWriterWake(k) ==
    /\ life.w[k] = "sleep"
    /\ life' = [life EXCEPT !.w[k] = "test"]
    /\ UNCHANGED <<pipelineVars, bk, pst, rec, tc, orch, fac, fl, lk>>

(* the steps of the writer thread k *)
LifeWriter(k) ==
    \/ LifeWriterBegin(k)
    \/ LifeWriterTest(k)
    \/ LifeWriterGet(k)
    \/ LifeWriterWake(k)

(* orchestrator.py:227: the collector enqueues a point; a full queue keeps  *)
(* its length                                                               *)
LifeCollectorPut ==
    /\ life.collector = "alive"
    /\ Len(life.queue) < MaxWaiting
    /\ life' = [life EXCEPT !.queue = Append(@, 1)]
    /\ UNCHANGED <<pipelineVars, bk, pst, rec, tc, orch, fac, fl, lk>>

(* orchestrator.py:168: while not self._stop_event.is_set() *)
LifeCollectorExit ==
    /\ life.collector = "alive"
    /\ life.stop_event
    /\ life' = [life EXCEPT !.collector = "exited"]
    /\ UNCHANGED <<pipelineVars, bk, pst, rec, tc, orch, fac, fl, lk>>

(* the orchestrator is started with the database enabled *)
LifeInit ==
    /\ DATABASE_ENABLED = TRUE
    /\ DB_TYPE = "influxdb"
    /\ PERSIST_UNSENT_ON_ALERT = FALSE
    /\ alert_handler = "None"
    /\ max_batches = MAX_PERSISTED_BATCHES
    /\ PipelineStart
    /\ bk = [base |-> 0, max_delay |-> 0, failure_count |-> 0, backoff |-> 0,
             previous |-> 0, sleep_time |-> 0]
    /\ pst = PersistIdle
    /\ rec = RecoverIdle
    /\ tc = ControlIdle
    /\ orch = MonitorIdle
    /\ fac = FactoryIdle
    /\ fl = FlushIdle
    /\ lk = LocksIdle
    /\ \E heating_enabled \in BOOLEAN : life = LifeStarted(heating_enabled)

LifeNext ==
    \/ LifeMain
    \/ \E k \in 1..MaxWriters : LifeWriter(k)
    \/ LifeCollectorPut
    \/ LifeCollectorExit

LifeSpec == LifeInit /\ [][LifeNext]_vars

(* every thread is scheduled *)
LifeFairSpec ==
    /\ LifeSpec
    /\ WF_vars(LifeMain)
    /\ \A k \in 1..MaxWriters : WF_vars(LifeWriter(k))
    /\ WF_vars(LifeCollectorExit)

(* ======================= the two locks ================================= *)

(* What a function does with the locks is the sequence of its acquire and   *)
(* release steps.  threading.Lock is not reentrant: an acquire waits until  *)
(* the lock is free, also when the waiting thread holds it itself.          *)

(* with lock: ... a block that calls nothing that takes a lock *)
WithLock(l) == <<<<"acquire", l>>, <<"release", l>>>>

(* thread_control.register_thread, register_*_callback, get_thread and the  *)
(* block of restart_thread, start_thread and stop_thread (lines 42, 57, 69, *)
(* 81, 116, 150, 184, 217)                                                  *)
registry_block == WithLock("_thread_lock")

(* the functions of shared_state: one block under _state_lock each, with    *)
(* assignments and copies only (lines 58-343)                               *)
state_block == WithLock("_state_lock")

(* shared_state.update_thread_status (lines 222-230) *)
update_thread_status == state_block

(* thread_control.get_thread_status (lines 92-103): the snapshot is built   *)
(* and handed to update_thread_status inside the block of the registry lock *)
registry_get_thread_status ==
    <<<<"acquire", "_thread_lock">>>> \o update_thread_status
        \o <<<<"release", "_thread_lock">>>>

(* a reader of the status that asks the registry while it holds the lock of *)
(* the shared state                                                         *)
state_get_thread_status_asking_registry ==
    <<<<"acquire", "_state_lock">>>> \o registry_block
        \o <<<<"release", "_state_lock">>>>

(* shared_state.get_thread_status (lines 233-240): a copy under the lock *)
state_get_thread_status == state_block

(* restart_thread, start_thread, stop_thread (thread_control.py:116-131,    *)
(* 150-165, 184-199): the block under the registry lock, then the callback  *)
(* outside it, which calls register_thread (orchestrator.py:119, 274)       *)
operation_with_callback == registry_block \o registry_block

(* the functions that each thread calls: the supervisory loop               *)
(* (orchestrator.py:365-398), the request handlers of the web layer         *)
(* (webui_server.py:173-253), the writer (database_writer.py:163-257) and   *)
(* the collector (orchestrator.py:231)                                      *)
LockCalls(t) ==
    CASE t = "monitor" -> {registry_get_thread_status, state_block,
                           operation_with_callback}
      [] t = "web" -> {state_get_thread_status, state_block}
      [] OTHER -> {state_block}

(* the thread calls one of its functions *)
LockCall(t, steps) ==
    /\ lk.todo[t] = <<>>
    /\ steps \in LockCalls(t)
    /\ lk' = [lk EXCEPT !.todo[t] = steps]
    /\ UNCHANGED <<pipelineVars, bk, pst, rec, tc, orch, fac, fl, life>>

(* the next step of the thread, which is in a function *)
NextLockStep(t) == Head(lk.todo[t])

(* lock.acquire(): the thread goes on when the lock is free *)
LockAcquire(t) ==
    /\ lk.todo[t] # <<>>
    /\ NextLockStep(t)[1] = "acquire"
    /\ lk.holder[NextLockStep(t)[2]] = "free"
    /\ lk' = [lk EXCEPT !.holder[NextLockStep(t)[2]] = t,
                        !.held[t] = Append(@, NextLockStep(t)[2]),
                        !.todo[t] = Tail(@)]
    /\ UNCHANGED <<pipelineVars, bk, pst, rec, tc, orch, fac, fl, life>>

(* lock.release() at the end of the with block *)
LockRelease(t) ==
    /\ lk.todo[t] # <<>>
    /\ NextLockStep(t)[1] = "release"
    /\ LET other(l) == l # NextLockStep(t)[2]
       IN lk' = [lk EXCEPT !.holder[NextLockStep(t)[2]] = "free",
                           !.held[t] = SelectSeq(@, other),
                           !.todo[t] = Tail(@)]
    /\ UNCHANGED <<pipelineVars, bk, pst, rec, tc, orch, fac, fl, life>>

LockInit ==
    /\ PipelineAtRest
    /\ AuxIdle

LockNext ==
    \E t \in LockThreads :
       \/ \E steps \in LockCalls(t) : LockCall(t, steps)
       \/ LockAcquire(t)
       \/ LockRelease(t)

LockSpec == LockInit /\ [][LockNext]_vars

(* ======================= properties ==================================== *)

(* C1 (SeqSpec): drop-oldest law.  The queue never holds more than          *)
(* WRITE_QUEUE_MAXSIZE points; between calls it holds the most recently     *)
(* enqueued points in arrival order, and as long as the writer has taken    *)
(* nothing out it holds exactly the WRITE_QUEUE_MAXSIZE most recent ones.   *)
DropOldestLaw ==
    /\ Len(write_queue) <= WRITE_QUEUE_MAXSIZE
    /\ (DATABASE_ENABLED /\ AllIdle) =>
         /\ \A i \in 1..Len(write_queue) :
              write_queue[i] = (nextPoint - 1) - Len(write_queue) + i
         /\ dequeued = <<>> => Len(write_queue) = Min(WRITE_QUEUE_MAXSIZE, nextPoint - 1)
         /\ dropped = {}

DropOldestWitness ==
    /\ AllIdle
    /\ dequeued = <<>>
    /\ Cardinality(evicted) >= 2
    /\ Len(write_queue) = WRITE_QUEUE_MAXSIZE

EnqueueNeverBlocksInv ==
    /\ Len(write_queue) <= WRITE_QUEUE_MAXSIZE
    /\ \A p \in Producers :
         /\ ppc[p] \in {"idle", "evict", "reput"}
         /\ (ppc[p] = "idle" /\ nextPoint <= MaxPoints) => ENABLED EnqPut(p)
         /\ ppc[p] = "evict" => ENABLED EnqEvict(p)
         /\ ppc[p] = "reput" => ENABLED EnqReput(p)
    /\ \A x \in dropped : x \notin Range(write_queue) /\ x \notin Range(dequeued)

EnqueueDropStep ==
    \A p \in Producers :
        /\ (ppc[p] = "evict" /\ ppc'[p] # "evict" /\ write_queue = <<>>) =>
              /\ ppc'[p] = "idle"
              /\ dropped' = dropped \cup {data_point[p]}
              /\ write_queue' = write_queue
        /\ (ppc[p] = "reput" /\ ppc'[p] # "reput" /\ Full(write_queue)) =>
              /\ ppc'[p] = "idle"
              /\ dropped' = dropped \cup {data_point[p]}
              /\ write_queue' = write_queue

(* C2 (Spec): enqueue_data_point never blocks and never raises.  In every   *)
(* interleaving with the other producer and the writer each step of a call  *)
(* can be taken at once, no call ends by raising, the queue stays within    *)
(* its capacity, and a call whose eviction or second put fails returns      *)
(* having dropped the new point and left the queue as it was.               *)
EnqueueNeverBlocks == []EnqueueNeverBlocksInv /\ [][EnqueueDropStep]_vars

EnqueueDropWitness ==
    /\ AllIdle
    /\ dropped # {}
    /\ Len(write_queue) = WRITE_QUEUE_MAXSIZE
    /\ dequeued = <<>>

FailedFlushStep ==
    (wpc = "write" /\ wpc' = "sleep") =>
        /\ failure_count' = failure_count + 1
        /\ batch' = batch
        /\ failedBatch' = batch

(* C3 (Spec): a failed flush adds exactly one to failure_count and leaves    *)
(* the batch as it was; the batch of the failed attempt is still a prefix   *)
(* of the batch, in the same order, up to and at the next flush attempt.    *)
FailedFlushKeepsBatch ==
    /\ [][FailedFlushStep]_vars
    /\ [](lastAttempt = "failed" => (failedBatch # <<>> /\ IsPrefix(failedBatch, batch)))

FailedFlushWitness ==
    /\ wpc = "write"
    /\ lastAttempt = "failed"
    /\ Len(batch) > Len(failedBatch)
    /\ failure_count >= 1

(* C4 (Spec): within a streak of failed flushes the alert callback is       *)
(* called at most once, at the attempt where failure_count equals           *)
(* ALERT_FAILURE_THRESHOLD, exactly once when the streak has reached the    *)
(* threshold and a callback is registered, and not before.                  *)
AlertOncePerEpisode ==
    /\ alertCalls <= 1
    /\ alertCalls = 1 => (alertAt = ALERT_FAILURE_THRESHOLD /\ alerted /\ alert_handler # "None")
    /\ failure_count < ALERT_FAILURE_THRESHOLD => (alertCalls = 0 /\ ~alerted)
    /\ (failure_count >= ALERT_FAILURE_THRESHOLD /\ alert_handler # "None") => alertCalls = 1
    /\ failure_count >= ALERT_FAILURE_THRESHOLD => alerted

AlertOnceWitness ==
    /\ alertCalls = 1
    /\ failure_count > ALERT_FAILURE_THRESHOLD
    /\ wpc = "sleep"

(* C5 (Spec): within a streak of failed flushes persist_batch is called at  *)
(* most once, with the batch in memory at the attempt that reached the      *)
(* threshold, exactly once when the streak has reached the threshold with   *)
(* persist-on-alert enabled and a backend other than "none", and never      *)
(* otherwise.                                                               *)
PersistOncePerEpisode ==
    /\ persistCalls <= 1
    /\ persistCalls = 1 =>
         /\ PERSIST_UNSENT_ON_ALERT
         /\ DB_TYPE # "none"
         /\ alerted
         /\ failure_count >= ALERT_FAILURE_THRESHOLD
         /\ persistedBatch # <<>>
         /\ IsPrefix(persistedBatch, batch)
    /\ (failure_count >= ALERT_FAILURE_THRESHOLD /\ PERSIST_UNSENT_ON_ALERT /\ DB_TYPE # "none")
         => persistCalls = 1
    /\ \A i \in 1..Len(store) : store[i].batch_json # json_dumps(<<>>)

PersistOnceWitness ==
    /\ persistCalls = 1
    /\ failure_count > ALERT_FAILURE_THRESHOLD
    /\ wpc = "sleep"
    /\ store # <<>>

(* C6 (Spec): when the writer has stopped, every point it dequeued has been *)
(* passed to a successful write_points call or handed to persist_batch.     *)
DeliveredAtStop ==
    wpc = "stopped" =>
        \A i \in 1..Len(dequeued) :
            \/ dequeued[i] \in Range(written)
            \/ dequeued[i] \in StoredPoints
            \/ dequeued[i] \in Range(persistedBatch)

LoopTestStep ==
    wpc = "loop" => (wpc' = "get" <=> (~stop_event \/ write_queue # <<>>))

(* the writer waits for a timeout or a sleep that ends after MaxTime *)
TimeExhausted == wpc \in Running /\ ~ENABLED WriterNext

(* C7 (FairSpec): the loop goes on exactly while the stop event is not set  *)
(* or the queue is not empty; the writer leaves the loop only after a test  *)
(* that found the stop event set and the queue empty; and once the stop     *)
(* event is set, the writer stops unless a point is in the queue (within    *)
(* the modelled time).                                                      *)
ShutdownDrain ==
    /\ [][LoopTestStep]_wpc
    /\ [](wpc \in {"close", "final", "stopped"} => (stopAtCheck /\ emptyAtCheck))
    /\ (stop_event /\ wpc \in Running) ~> (wpc = "stopped" \/ write_queue # <<>> \/ TimeExhausted)

ShutdownDrainWitness ==
    /\ wpc = "get"
    /\ stopAtCheck
    /\ ~emptyAtCheck
    /\ batch # <<>>

(* C8 (Spec): whenever the writer is about to dequeue with a batch of at    *)
(* least BATCH_SIZE points, a flush has been attempted since the last point *)
(* was added to the batch.                                                  *)
FlushOnSize ==
    (wpc \in {"loop", "get"} /\ Len(batch) >= BATCH_SIZE) => attemptSinceDequeue

FlushOnSizeWitness ==
    /\ wpc = "get"
    /\ Len(batch) > BATCH_SIZE
    /\ attemptSinceDequeue

(* C9 (Spec), as claimed: write_points never gets an empty batch and an     *)
(* idle period sees exactly one size-zero flush-check cycle.                *)
ExactlyOneZeroCycle ==
    /\ wpc = "write" => batch # <<>>
    /\ zeroCycles <= 1

ZeroCycleStep ==
    (wpc = "check" /\ batch = <<>> /\ wpc' # "check") =>
        /\ wpc' = "loop"
        /\ last_flush_time' = last_flush_time
        /\ batch' = <<>>
        /\ zeroCycles' = IF current_time - last_flush_time >= FLUSH_INTERVAL
                           THEN Min(zeroCycles + 1, ZeroCycleCap) ELSE zeroCycles

(* C9 (Spec), amended: write_points never gets an empty batch; a flush      *)
(* check that finds the trigger true and the batch empty attempts no write  *)
(* and leaves last_flush_time alone, so that such a cycle recurs at every   *)
(* dequeue timeout of the idle period.                                      *)
NoEmptyWrite ==
    /\ [](wpc = "write" => batch # <<>>)
    /\ [][ZeroCycleStep]_vars

NoEmptyWriteWitness ==
    /\ zeroCycles >= 2
    /\ wpc = "loop"
    /\ batch = <<>>
    /\ written = <<>>

SuccessfulFlushStep ==
    (wpc = "write" /\ wpc' = "loop") =>
        /\ batch' = <<>>
        /\ failure_count' = 0
        /\ alerted' = FALSE
        /\ last_flush_time' = current_time
        /\ db_status'.last_write_time = current_time
        /\ db_status'.write_failures = 0
        /\ db_status'.writer_alive
        /\ written' = written \o batch

(* C10 (Spec): a successful flush clears the batch, sets failure_count to 0 *)
(* and alerted to false, sets last_flush_time to the time of the flush      *)
(* check, and publishes a status with that time as last write time and no   *)
(* write failures, whatever failure_count and alerted were before.          *)
SuccessfulFlushResets == [][SuccessfulFlushStep]_vars

SuccessfulFlushWitness ==
    /\ lastAttempt = "ok"
    /\ wpc = "loop"
    /\ store # <<>>
    /\ failure_count = 0
    /\ ~alerted
    /\ batch = <<>>
    /\ db_status.last_write_time = last_flush_time
    /\ last_flush_time < now

(* C11 (BackoffSpec): backoff bound law.  After the n-th consecutive        *)
(* failure (n >= 1) the delay is min(base * 2^(n-1), max_delay); it is not  *)
(* smaller than the delay after the failure before, it never exceeds        *)
(* max_delay, and the slept time lies in [delay, 1.1 * delay].              *)
BackoffBoundLaw ==
    bk.failure_count >= 1 =>
        LET uncapped == bk.base * 2 ^ (bk.failure_count - 1)
        IN /\ bk.backoff = (IF uncapped <= bk.max_delay THEN uncapped ELSE bk.max_delay)
           /\ bk.backoff <= bk.max_delay
           /\ bk.previous <= bk.backoff
           /\ bk.backoff <= bk.sleep_time
           /\ 10 * bk.sleep_time <= 11 * bk.backoff

(* the cap is in force, the delay has grown, the jitter is not zero *)
BackoffBoundWitness ==
    /\ bk.failure_count >= 2
    /\ bk.backoff = bk.max_delay
    /\ bk.base * 2 ^ (bk.failure_count - 1) > bk.max_delay
    /\ 0 < bk.previous /\ bk.previous < bk.backoff
    /\ bk.sleep_time > bk.backoff

(* C12 (Spec): the backoff sleep is interruptible.  When the writer leaves  *)
(* the sleep with the stop event set, less than the full delay + jitter has *)
(* elapsed.  The code sleeps with time.sleep(sleep_time), which the stop    *)
(* event does not shorten, so this statement is violated.                   *)
SleepInterruptible ==
    [][(wpc = "sleep" /\ stop_event /\ wpc' # "sleep") => now' - now < sleep_time]_vars

(* the final status is published only after close has been called *)
FinalStatusStep ==
    (wpc \in Running \cup {"close", "final"} /\ db_status.writer_alive
        /\ ~db_status'.writer_alive)
    => (wpc = "final" /\ wpc' = "stopped" /\ db_adapter \in {"closed", "close_raised"})

(* C13 (Spec): on every exit of the writer loop the writer first closes the *)
(* adapter and then publishes the final status with writer_alive = FALSE;   *)
(* when close raises, the exception is caught and the stopped status is     *)
(* still published.                                                         *)
CloseThenFinalStatus ==
    /\ [](wpc = "close" => (db_adapter = "open" /\ db_status.writer_alive
                            /\ ENABLED WriterClose))
    /\ [](db_adapter \in {"closed", "close_raised"} => wpc \in {"final", "stopped"})
    /\ [](wpc = "final" => (db_status.writer_alive /\ ENABLED WriterFinalStatus))
    /\ [](wpc = "stopped" => (~db_status.writer_alive
                              /\ db_adapter \in {"closed", "close_raised"}))
    /\ [][FinalStatusStep]_vars

(* close raised and the stopped status is published *)
CloseThenFinalStatusWitness ==
    /\ wpc = "stopped"
    /\ db_adapter = "close_raised"
    /\ ~db_status.writer_alive

(* C14 (Spec): FIFO flush order.  Within a writer run the points passed to  *)
(* successful write_points calls are, in the order of the calls and of the  *)
(* batches, the first points that were dequeued, in dequeue order, each one *)
(* once; the points dequeued since are the batch, in the same order.        *)
FifoFlushOrder ==
    /\ IsPrefix(written, dequeued)
    /\ dequeued = written \o batch
    /\ \A i, j \in 1..Len(written) : i < j => written[i] # written[j]

(* points were written, and a failed batch has grown before its retry *)
FifoFlushOrderWitness ==
    /\ Len(written) >= BATCH_SIZE
    /\ Len(batch) > Len(failedBatch)
    /\ failedBatch # <<>>
    /\ lastAttempt = "failed"

(* the row that the last call of persist_batch had to insert *)
LastRowOk(row) ==
    /\ row.id = pst.seq_before + 1
    /\ row.persisted_at = pst.at
    /\ json_valid(row.batch_json)
    /\ json_loads(row.batch_json) = pst.batch

(* C15 (PruneSpec): persist_batch on an empty batch is a no-op that leaves  *)
(* the store unchanged; on a non-empty batch it appends exactly one row     *)
(* that holds the serialized batch and then runs pruning.  (When the INSERT *)
(* raises nothing is appended, when the pruning raises the row stays and    *)
(* nothing is deleted; the exception is logged in both cases.)              *)
PersistBatchLaw ==
    pst.calls > 0 =>
        IF pst.batch = <<>>
          THEN store = pst.before /\ sqlite_sequence = pst.seq_before
          ELSE CASE pst.fault = "insert" ->
                      store = pst.before /\ sqlite_sequence = pst.seq_before
                 [] pst.fault = "prune" ->
                      /\ sqlite_sequence = pst.seq_before + 1
                      /\ Len(store) = Len(pst.before) + 1
                      /\ SubSeq(store, 1, Len(pst.before)) = pst.before
                      /\ LastRowOk(store[Len(store)])
                 [] pst.fault = "none" ->
                      /\ sqlite_sequence = pst.seq_before + 1
                      /\ LET row == [id |-> sqlite_sequence, persisted_at |-> pst.at,
                                      batch_json |-> json_dumps(pst.batch)]
                         IN /\ LastRowOk(row)
                            /\ store = prune_old_batches(Append(pst.before, row),
                                                         max_batches)

(* a non-empty batch was appended to a store with rows, and pruning deleted *)
PersistBatchWitness ==
    /\ pst.calls > 0
    /\ pst.batch # <<>>
    /\ pst.fault = "none"
    /\ pst.before # <<>>
    /\ Len(store) < Len(pst.before)
    /\ store # <<>>
    /\ store[Len(store)].id = sqlite_sequence

(* 80% of max_batches, rounded down (line 69: int(MAX_PERSISTED_BATCHES * 0.8)) *)
PruneTarget == CHOOSE n \in 0..max_batches : 10 * n <= 8 * max_batches /\ 8 * max_batches < 10 * (n + 1)

(* the rows that the last call of persist_batch deleted *)
PrunedRows == {r \in Range(pst.before) : r \notin Range(store)}

(* C16 (PruneSpec), as first stated: once more than max_batches rows have   *)
(* been inserted through persist_batch, ceil(0.8 * max_batches) or fewer    *)
(* rows are left.                                                           *)
PrunedToEightyPercent ==
    (pst.clean /\ pst.inserts > max_batches) => 10 * Len(store) <= 8 * max_batches + 9

(* C16 (PruneSpec): pruning law.  Pruning deletes rows only when the row    *)
(* count exceeds max_batches, and then deletes the oldest rows (ascending   *)
(* persisted_at) down to floor(0.8 * max_batches) rows; however many rows   *)
(* are inserted through persist_batch, at most max_batches rows are left    *)
(* (between floor(0.8 * max_batches) and max_batches once more than         *)
(* max_batches were inserted), always the ones of latest persisted_at,      *)
(* which are the most recently inserted ones unless the clock was set back. *)
PruningLaw ==
    /\ (pst.calls > 0 /\ pst.batch # <<>> /\ pst.fault = "none") =>
          /\ Len(pst.before) + 1 <= max_batches => PrunedRows = {}
          /\ Len(pst.before) + 1 > max_batches =>
                /\ Len(store) = PruneTarget
                /\ \A d \in PrunedRows : \A k \in Range(store) : Older(d, k)
          /\ \A i \in 1..Len(store) :
                store[i] \in Range(pst.before) \/ store[i].id = sqlite_sequence
    /\ pst.clean =>
          /\ Len(store) <= max_batches
          /\ pst.inserts > max_batches => Len(store) >= PruneTarget
          /\ pst.set_backs = 0 =>
                \A i \in 1..Len(store) : store[i].id = sqlite_sequence - Len(store) + i

(* pruning has cut the table down to the target, and the rows kept are not  *)
(* the ones of highest id because the clock was set back                    *)
PruningLawWitness ==
    /\ pst.clean
    /\ pst.batch # <<>>
    /\ Len(pst.before) = max_batches
    /\ max_batches >= 3
    /\ Len(store) = PruneTarget
    /\ PrunedRows # {}
    /\ \E d \in PrunedRows : \E k \in Range(store) : k.id < d.id

(* a pass of the recovery has returned and the table is as the pass left it *)
PassReturned == rec.pc = "idle" /\ rec.passes > 0 /\ store = rec.after

(* C17 (RecoverSpec): Persist then Recover round trip.  A non-empty batch   *)
(* persisted into an empty store and then recovered against an adapter that *)
(* always succeeds is passed to write_points with the same points in the    *)
(* same order, its row is deleted, and the result is (1, 0).                *)
PersistRecoverRoundTrip ==
    (/\ PassReturned
     /\ rec.adapter = "always_succeeds"
     /\ pst.batch # <<>>
     /\ pst.before = <<>>
     /\ Len(pst.after) = 1
     /\ rec.before = pst.after)
    => /\ Len(rec.attempts) = 1
       /\ rec.attempts[1].called
       /\ rec.attempts[1].written = pst.batch
       /\ store = <<>>
       /\ rec.result = <<1, 0>>

(* the batch <<2, 1>> has made the round trip *)
PersistRecoverWitness ==
    /\ PassReturned
    /\ rec.adapter = "always_succeeds"
    /\ pst.batch = <<2, 1>>
    /\ pst.before = <<>>
    /\ rec.before = pst.after
    /\ Len(rec.before) = 1
    /\ rec.result = <<1, 0>>

(* the outcome of a row, from its text and from what the adapter answered *)
Outcome(a) ==
    IF ~json_valid(a.row.batch_json) THEN "malformed"
    ELSE IF ~a.answer.raised THEN "success"
    ELSE IF a.answer.message \in PermanentMessages THEN "rejected"
    ELSE "transient"

OutcomeCount(kinds) ==
    Cardinality({k \in 1..Len(rec.attempts) : Outcome(rec.attempts[k]) \in kinds})

FailedTransiently(r) ==
    \E k \in 1..Len(rec.attempts) :
        rec.attempts[k].row.id = r.id /\ Outcome(rec.attempts[k]) = "transient"

Attempted(r) == \E k \in 1..Len(rec.attempts) : rec.attempts[k].row.id = r.id

StaysInStore(r) == FailedTransiently(r) \/ ~Attempted(r)

(* C18 (RecoverSpec): Recover classifies each row into exactly one outcome: *)
(* write succeeds -> row deleted, counted as success; payload fails to      *)
(* deserialize -> row deleted, counted as failure; permanent rejection by   *)
(* the adapter -> row deleted, counted as failure; any other adapter        *)
(* failure -> row left in place, counted as failure.  After Recover the     *)
(* store holds exactly the rows that failed transiently, and success_count  *)
(* + failure_count equals the number of rows read.                          *)
RecoverClassifies ==
    /\ rec.pc = "rows" =>
          /\ Len(rec.attempts) = rec.i - 1
          /\ \A k \in 1..Len(rec.attempts) :
                /\ rec.attempts[k].row = rec.rows[k]
                /\ rec.attempts[k].called = json_valid(rec.rows[k].batch_json)
          /\ rec.success_count = OutcomeCount({"success"})
          /\ rec.failure_count = OutcomeCount({"malformed", "rejected", "transient"})
          /\ rec.success_count + rec.failure_count = rec.i - 1
          /\ store = SelectSeq(rec.before, StaysInStore)
    /\ PassReturned =>
          /\ Len(rec.attempts) = Len(rec.before)
          /\ rec.result = <<OutcomeCount({"success"}),
                            OutcomeCount({"malformed", "rejected", "transient"})>>
          /\ rec.result[1] + rec.result[2] = Len(rec.before)
          /\ store = SelectSeq(rec.before, FailedTransiently)

(* one pass has dropped a malformed row and a rejected row and has left a   *)
(* row that failed transiently                                              *)
RecoverClassifiesWitness ==
    /\ PassReturned
    /\ Len(rec.before) = 3
    /\ OutcomeCount({"malformed"}) = 1
    /\ OutcomeCount({"rejected"}) = 1
    /\ OutcomeCount({"transient"}) = 1
    /\ Len(store) = 1
    /\ rec.result = <<0, 3>>

(* C19 (RecoverSpec): Recover replays persisted batches oldest first:       *)
(* write_points is called on the rows in ascending persisted_at order, each *)
(* row at most once per pass, and a failure on one row does not stop the    *)
(* pass from attempting the rows after it.                                  *)
RecoverOldestFirst ==
    /\ \A k, l \in 1..Len(rec.attempts) :
          k < l => /\ rec.attempts[k].row.persisted_at <= rec.attempts[l].row.persisted_at
                   /\ rec.attempts[k].row.id # rec.attempts[l].row.id
    /\ \A k \in 1..Len(rec.attempts) :
          /\ rec.attempts[k].row \in Range(rec.before)
          /\ rec.attempts[k].called =>
                rec.attempts[k].written = json_loads(rec.attempts[k].row.batch_json)
    /\ (rec.pc = "rows" /\ Len(rec.attempts) < Len(rec.before)) => ENABLED RecoverRow
    /\ PassReturned =>
          \A r \in Range(rec.before) :
             \E k \in 1..Len(rec.attempts) :
                /\ rec.attempts[k].row = r
                /\ rec.attempts[k].called = json_valid(r.batch_json)

(* the row of highest id is older than the row before it and was replayed   *)
(* before it; the first attempt failed and the rows after it were written   *)
RecoverOldestFirstWitness ==
    /\ PassReturned
    /\ Len(rec.attempts) = 3
    /\ rec.attempts[2].row.id = 3
    /\ rec.attempts[3].row.id = 2
    /\ rec.attempts[1].answer.raised
    /\ rec.attempts[2].called /\ ~rec.attempts[2].answer.raised
    /\ rec.attempts[3].called /\ ~rec.attempts[3].answer.raised
    /\ rec.result = <<2, 1>>

(* the registry of thread_control *)
Registry == <<tc.threads, tc.callbacks>>

(* an operation is called in this step *)
OperationCalled == tc.call.pc = "idle" /\ tc'.call # tc.call

(* the cases in which the operation op on name must be refused *)
MustRefuse(op, name) ==
    \/ name \notin KnownNames
    \/ name \notin tc.callbacks[op]
    \/ op = "start" /\ tc.threads[name] = "alive"
    \/ op = "stop" /\ tc.threads[name] \in {"None", "dead"}

RefusedStep ==
    (OperationCalled /\ MustRefuse(tc'.call.op, tc'.call.name))
    => /\ tc'.call.pc = "idle"
       /\ ~tc'.result.ok
       /\ ~tc'.result.invoked
       /\ tc'.result.message \in {"Unknown thread", "no callback registered",
                                  "already running", "is not running"}
       /\ Registry' = Registry

(* C20 (ControlSpec): orchestrator preconditions.  restart_thread,          *)
(* start_thread and stop_thread return (False, message) without invoking    *)
(* any callback and without changing the registry when the name is unknown, *)
(* when the matching callback is not registered, when start is called on a  *)
(* worker whose handle is alive, or when stop is called on a worker whose   *)
(* handle is absent or not alive.                                           *)
ControlPreconditions ==
    /\ [][RefusedStep]_vars
    /\ [](tc.call.pc = "callback" =>
             (tc.call.name \in KnownNames /\ tc.call.name \in tc.callbacks[tc.call.op]))

(* start was refused for a live worker that has a start callback *)
ControlPreconditionsWitness ==
    /\ tc.call = [pc |-> "idle", op |-> "start", name |-> "database_writer"]
    /\ "database_writer" \in tc.callbacks["start"]
    /\ tc.threads["database_writer"] = "alive"
    /\ tc.result = [ok |-> FALSE, message |-> "already running", invoked |-> FALSE,
                    callback_raised |-> FALSE, outcome |-> "returned"]

(* restart_thread returns (True, message) in this step *)
RestartSucceeded ==
    /\ tc.call.pc = "callback" /\ tc.call.op = "restart"
    /\ tc'.call.pc = "idle" /\ tc'.result.ok

(* C21 (ControlSpec): a successful restart results in a running worker.     *)
(* Whenever restart_thread(name) returns (True, message), the status        *)
(* snapshot taken right afterwards reports running = True for that name,    *)
(* for every registered worker and every configuration.                     *)
RestartLeavesWorkerRunning ==
    [][RestartSucceeded =>
         get_thread_status(tc'.threads, tc'.callbacks)[tc.call.name].running]_vars

(* restart_thread, start_thread or stop_thread ends in this step *)
OperationEnded ==
    /\ tc'.call.pc = "idle"
    /\ tc.call.pc = "callback" \/ OperationCalled

(* C22 (ControlSpec): restart_thread, start_thread and stop_thread never    *)
(* raise to their caller.  When the invoked callback raises, the exception  *)
(* is caught and the operation returns (False, message); in every other     *)
(* case it returns a (bool, string) pair.                                   *)
ControlNeverRaises ==
    [][OperationEnded =>
         /\ tc'.result.outcome = "returned"
         /\ tc'.result.ok \in BOOLEAN
         /\ tc'.result.message \in {"Unknown thread", "no callback registered",
                                    "already running", "is not running",
                                    "Failed", "successfully"}
         /\ tc'.result.callback_raised
              => (~tc'.result.ok /\ tc'.result.message = "Failed")]_vars

(* the stop callback of a running writer raised and stop_thread returned    *)
(* (False, message)                                                         *)
ControlNeverRaisesWitness ==
    /\ tc.call = [pc |-> "idle", op |-> "stop", name |-> "database_writer"]
    /\ tc.threads["database_writer"] = "alive"
    /\ tc.result.invoked /\ tc.result.callback_raised
    /\ tc.result.outcome = "returned" /\ ~tc.result.ok

(* C23 (ControlSpec): the registry lock is never held while a start, stop   *)
(* or restart callback runs.  Each operation holds the lock only for the    *)
(* precondition check and the lookup of the callback and has released it    *)
(* when the callback is invoked, so that the register_thread call of a      *)
(* callback is never kept waiting by the operation that invoked it.         *)
LockFreeDuringCallback ==
    tc.call.pc = "callback" =>
        /\ tc.lock = "free"
        /\ CallbackRegisters(tc.call.op) => ENABLED RegisterThread(tc.call.name)

(* the restart callback of the writer has registered the new thread and     *)
(* restart_thread has returned (True, message)                              *)
LockFreeDuringCallbackWitness ==
    /\ tc.call = [pc |-> "idle", op |-> "restart", name |-> "database_writer"]
    /\ tc.result.invoked /\ tc.result.ok
    /\ tc.threads["database_writer"] = "alive"
    /\ tc.lock = "free"

(* the loop clears the request of the name it has just processed *)
ClearStep == orch.current # "none" /\ orch'.current = "none"

(* the loop calls an operation in this step *)
MonitorCallStep == orch.current = "none" /\ orch'.current # "none"

(* C24 (MonitorFairSpec): the supervisory loop drains the queued requests.  *)
(* An operation is called only for a name that is in the map of that        *)
(* operation; a request is cleared after restart_thread, start_thread or    *)
(* stop_thread has been called exactly once for it in that pass and has     *)
(* returned, whether it succeeded or failed; every name in a request map    *)
(* is eventually cleared from it.                                           *)
MonitorDrains ==
    /\ [][MonitorCallStep =>
            /\ orch'.current \in orch.requests[orch.pc]
            /\ tc'.call.op = orch.pc /\ tc'.call.name = orch'.current]_vars
    /\ [][ClearStep =>
            /\ orch.calls[orch.current] = 1
            /\ tc.call = [pc |-> "idle", op |-> orch.pc, name |-> orch.current]
            /\ tc.result.outcome = "returned"
            /\ orch.current \notin orch'.requests[orch.pc]]_vars
    /\ \A op \in Operations, n \in Names :
         (n \in orch.requests[op]) ~> (n \notin orch.requests[op])

(* a restart request for an unknown name was refused and cleared, and a     *)
(* stop request of the writer succeeded and was cleared in the same pass    *)
MonitorDrainsWitness ==
    /\ orch.pc = "stop" /\ orch.current = "none" /\ orch.pending = {}
    /\ orch.calls["database_writer"] = 1
    /\ tc.call = [pc |-> "idle", op |-> "stop", name |-> "database_writer"]
    /\ tc.result.ok
    /\ orch.requests = [op \in Operations |-> {}]
    /\ orch.queued = 2
    /\ orch.stopped = {"database_writer"}

(* the health check of a pass is made in this step *)
HealthStep == orch.pc = "health" /\ orch'.pc = "poll"

(* C25 (MonitorSpec): crash detection.  The loop logs a critical event for  *)
(* a core worker exactly when the worker is found not running without       *)
(* having been asked to stop: a worker stopped through a stop request is    *)
(* not reported as having exited unexpectedly; and the loop calls start or  *)
(* restart only for a worker for which that request is queued.              *)
CrashDetection ==
    /\ [][HealthStep =>
            orch'.critical = {n \in CoreWorkers :
                                tc.threads[n] # "alive" /\ n \notin orch.stopped}]_vars
    /\ [][MonitorCallStep => orch'.current \in orch.requests[orch.pc]]_vars

(* the backend types named by the factory's documentation and error text *)
DocumentedTypes == {"influxdb", "prometheus", "timescaledb", "victoriametrics", "none"}

(* what a NoneAdapter does when called: write_points returns and keeps      *)
(* nothing, test_connection returns True                                    *)
NoneAdapterIsNoOp ==
    fac.adapter = "NoneAdapter" =>
        /\ fac.stored = <<>>
        /\ fac.call = "write_points" => fac.returned = "None"
        /\ fac.call = "test_connection" => fac.returned = "True"

ScenarioDone == fl.pc = "done" /\ fl.failures_before_success = 3

(* each delay is longer than the one before *)
DelaysIncrease == \A k \in 1..(Len(fl.delays) - 1) : fl.delays[k] < fl.delays[k + 1]

(* the fourth attempt is made in this step *)
FourthAttempt == fl.failures_before_success = 3 /\ fl.attempts = 3 /\ fl'.attempts = 4

(* the fourth attempt succeeds and resets failure_count *)
FourthAttemptSucceeds ==
    FourthAttempt => (fl'.last = "ok" /\ fl.failure_count = 3 /\ fl'.failure_count = 0)

FlushSucceeds == fl.pc = "write" /\ fl'.last = "ok" /\ fl'.attempts = fl.attempts + 1

(* the notifications emitted in this step *)
RestoredEmitted == fl'.restored - fl.restored

(* C29 as stated (FlushSpec): a successful flush that ends a streak of one  *)
(* or more consecutive failed flushes emits the "connection restored"       *)
(* notification exactly once, and a successful flush that follows a         *)
(* success emits none.                                                      *)
RestoredAfterAnyStreak ==
    [][FlushSucceeds =>
         RestoredEmitted = IF fl.failure_count >= 1 THEN 1 ELSE 0]_vars

(* C29 (FlushSpec): connection-restored notification.  A successful flush   *)
(* that ends a streak of failed flushes in which the alert was fired (a     *)
(* streak of at least alertThreshold failures) emits the notification       *)
(* exactly once; a successful flush that ends a shorter streak or follows   *)
(* a success emits none.                                                    *)
RestoredAfterAlert ==
    /\ [](fl.alerted <=> (fl.threshold > 0 /\ fl.failure_count >= fl.threshold))
    /\ [][FlushSucceeds =>
            RestoredEmitted = IF fl.failure_count >= fl.threshold THEN 1 ELSE 0]_vars

(* three failures with a threshold of two were followed by successes: the  *)
(* notification was emitted once                                            *)
RestoredAfterAlertWitness ==
    /\ fl.pc = "done" /\ fl.failures_before_success = 3
    /\ fl.threshold = 2 /\ fl.restored = 1 /\ fl.attempts >= 5

(* the alert handler raises in this step *)
HandlerRaises == fl'.handler_raised = fl.handler_raised + 1

(* C30 (FlushSpec): an exception raised by the alert callback does not      *)
(* crash the writer and does not change the episode handling.  In the       *)
(* attempt in which the handler raises, the writer persists the batch when  *)
(* persistence on alert is enabled and the backend is not "none", sets      *)
(* alerted, keeps the batch, backs off, and goes on with its loop.          *)
HandlerExceptionContained ==
    /\ [](fl.pc # "crashed")
    /\ [][HandlerRaises =>
            /\ fl'.pc = "get"
            /\ fl'.alerted /\ fl'.alerts = fl.alerts + 1
            /\ fl'.persisted = IF fl.persist /\ ScenarioDbType # "none"
                                 THEN Append(fl.persisted, fl.batch) ELSE fl.persisted
            /\ fl'.batch = fl.batch
            /\ Len(fl'.delays) = Len(fl.delays) + 1
            /\ fl'.delays[Len(fl'.delays)] >= fl.base]_vars

(* the handler raised at the second failure; the batch was persisted and    *)
(* the run went on until every point was written                            *)
HandlerExceptionContainedWitness ==
    /\ fl.pc = "done"
    /\ fl.handler = "raising_handler" /\ fl.handler_raised = 1
    /\ fl.threshold = 2 /\ fl.persist /\ Len(fl.persisted) = 1
    /\ Len(fl.written) = ScenarioPoints

(* C28 (Spec): a data point leaves the writer's batch when it is flushed or *)
(* persisted.  The points of a batch that was handed to persist_batch are   *)
(* not passed to write_points again by the same writer run: no point is     *)
(* both in a persisted row and in a successful flush.                       *)
PersistedNotFlushedAgain ==
    /\ [](Range(written) \cap StoredPoints = {})
    /\ [][(wpc' = "write" /\ wpc # "write")
            => Range(batch') \cap StoredPoints = {}]_vars

(* ---- C31 --------------------------------------------------------------- *)

(* a dequeue attempt that times out while a batch smaller than BATCH_SIZE   *)
(* waits for its first attempt since the last successful flush              *)
IdleGetStep ==
    /\ wpc = "get"
    /\ write_queue = <<>>
    /\ batch # <<>>
    /\ Len(batch) < BATCH_SIZE
    /\ lastAttempt # "failed"
    /\ wpc' # wpc

(* the flush trigger evaluated on a non-empty batch after FLUSH_INTERVAL *)
IntervalCheckStep ==
    /\ wpc = "check"
    /\ batch # <<>>
    /\ current_time - last_flush_time >= FLUSH_INTERVAL
    /\ wpc' # wpc

(* C31 (Spec): the flush trigger is evaluated after every dequeue attempt,  *)
(* also after one that timed out without a point; a timed-out attempt on a  *)
(* waiting batch smaller than BATCH_SIZE ends no later than GetTimeout      *)
(* after last_flush_time + FLUSH_INTERVAL, and the evaluation of the        *)
(* trigger on a non-empty batch once FLUSH_INTERVAL has elapsed starts a    *)
(* flush attempt, whether or not a point arrived.                           *)
IdleFlush ==
    /\ [][(wpc = "get" /\ wpc' # wpc) =>
            /\ wpc' = "check"
            /\ current_time' = now'
            /\ now' - now <= GetTimeout]_vars
    /\ [][IdleGetStep =>
            /\ batch' = batch
            /\ current_time' <= last_flush_time + FLUSH_INTERVAL + GetTimeout]_vars
    /\ [][IntervalCheckStep => wpc' = "write" /\ batch' = batch]_vars

(* a batch of one point, no further point in the queue, about to be         *)
(* flushed because FLUSH_INTERVAL has elapsed after a timed-out attempt     *)
IdleFlushWitness ==
    /\ wpc = "write"
    /\ Len(batch) = 1
    /\ Len(batch) < BATCH_SIZE
    /\ write_queue = <<>>
    /\ lastAttempt # "failed"
    /\ current_time - last_flush_time = FLUSH_INTERVAL
    /\ nextPoint = 2
    /\ ~stop_event

(* ---- C36 --------------------------------------------------------------- *)

(* C36 (PruneSpec): pruning never removes the batch that was just           *)
(* persisted.  After a persist_batch call on a non-empty batch in which no  *)
(* statement raised, the row the call appended is still in the store and    *)
(* the store holds at most max_batches rows.                                *)
PersistKeepsNewRow ==
    (pst.calls > 0 /\ pst.batch # <<>> /\ pst.fault = "none") =>
        /\ \E i \in 1..Len(store) :
             /\ store[i].id = pst.seq_before + 1
             /\ store[i].batch_json = json_dumps(pst.batch)
        /\ Len(store) <= max_batches

(* ---- C37 --------------------------------------------------------------- *)

(* C37 (FlushSpec): writer state invariant.  In every state of a writer run *)
(* failure_count >= 0, and alerted implies failure_count >= 1 and           *)
(* failure_count >= ALERT_FAILURE_THRESHOLD; a successful flush leaves      *)
(* alerted false and failure_count 0.                                       *)
WriterStateInvariant ==
    /\ [](/\ fl.failure_count >= 0
          /\ fl.alerted => /\ fl.failure_count >= 1
                           /\ fl.failure_count >= fl.threshold)
    /\ [][FlushSucceeds => ~fl'.alerted /\ fl'.failure_count = 0]_vars

(* a successful flush that ended a streak in which the alert was fired at   *)
(* the third failure                                                        *)
WriterStateInvariantWitness ==
    /\ fl.last = "ok"
    /\ fl.threshold = 3
    /\ fl.failed = 3
    /\ fl.alerts = 1
    /\ fl.alert_at = 3
    /\ ~fl.alerted
    /\ fl.failure_count = 0

(* ---- C35 --------------------------------------------------------------- *)

(* C35 (Spec): the published database status agrees with the liveness of    *)
(* the writer.  When the writer thread has ended (it returned at the        *)
(* disabled check, it returned after the loop, or the adapter constructor   *)
(* raised) the last published writer_alive is false, and while the thread   *)
(* runs its loop the last published writer_alive is true.                   *)
StatusAgreesWithLiveness ==
    /\ wpc \in {"disabled", "stopped", "crashed"} => ~db_status.writer_alive
    /\ wpc \in {"loop", "get", "check", "write", "sleep"} => db_status.writer_alive

(* ---- C34 --------------------------------------------------------------- *)

(* C34 (MonitorSpec): no lost request.  A request is cleared only when the  *)
(* operation was called after the request was queued: the entry that the    *)
(* loop removes is never one that was written after the call for that name  *)
(* began.                                                                   *)
NoLostRequest ==
    [][ClearStep => orch.current \notin orch.fresh[orch.pc]]_vars

(* ---- C38 --------------------------------------------------------------- *)

(* stop_thread returns (True, ...) in this step *)
StopSucceeded ==
    /\ tc.call.pc = "callback"
    /\ tc.call.op = "stop"
    /\ tc'.call.pc = "idle"
    /\ tc'.result.ok

(* C38 (ControlSpec): a successful stop results in a stopped worker.  When  *)
(* stop_thread(name) returns (True, ...), the status snapshot taken right   *)
(* after it reports running = False for that name.                          *)
StopLeavesWorkerStopped ==
    [][StopSucceeded =>
         ~get_thread_status(tc'.threads, tc'.callbacks)[tc.call.name].running]_vars

(* ---- C32 --------------------------------------------------------------- *)

(* the writer threads that have been started and have not ended *)
LiveWriters == {k \in 1..MaxWriters : life.w[k] \notin {"unborn", "exited"}}

(* C32 (LifeFairSpec): ThreadOrchestrator.stop signals every worker to      *)
(* stop.  After stop() has been called, every worker thread that the        *)
(* orchestrator started, the database writer included, eventually ends.    *)
StopEndsEveryWorker ==
    life.stop_called ~> /\ LiveWriters = {}
                        /\ life.collector = "exited"
                        /\ life.heating # "alive"

(* ---- C33 --------------------------------------------------------------- *)

(* the writer threads that are in the loop of database_writer *)
LoopingWriters == {k \in 1..MaxWriters : life.w[k] \in {"test", "get", "sleep"}}

(* C33 (LifeSpec): single writer.  After any sequence of start, stop and    *)
(* restart operations on database_writer at most one writer thread is in    *)
(* its loop, taking points from the intake queue.                           *)
SingleWriter == Cardinality(LoopingWriters) <= 1

(* ---- C40 --------------------------------------------------------------- *)

(* C40 (LifeSpec): ThreadOrchestrator.stop completes without raising,       *)
(* whatever the thread table holds, also after a stop request has put None  *)
(* in the entry of a worker.                                                *)
StopNeverRaises == life.main = "ended" => life.result.outcome = "returned"

(* ---- C39 --------------------------------------------------------------- *)

(* the thread waits in acquire() for a lock that is held *)
WaitsFor(t, u) ==
    /\ lk.todo[t] # <<>>
    /\ NextLockStep(t)[1] = "acquire"
    /\ lk.holder[NextLockStep(t)[2]] = u

(* the thread is in a function and its next step can be taken *)
CanStep(t) ==
    /\ lk.todo[t] # <<>>
    /\ NextLockStep(t)[1] = "acquire" => lk.holder[NextLockStep(t)[2]] = "free"

(* C39 (LockSpec): lock ordering is acyclic.  The registry lock and the     *)
(* shared-state lock are nested only in the order registry lock, then       *)
(* shared-state lock; no thread acquires the registry lock while it holds   *)
(* the shared-state lock; and no thread waits for a lock for ever: a        *)
(* waiting thread waits for another thread that can take its next step, or  *)
(* that waits for a third thread that can.                                  *)
LockOrderAcyclic ==
    \A t \in LockThreads :
       /\ lk.held[t] \in {<<>>, <<"_thread_lock">>, <<"_state_lock">>,
                          <<"_thread_lock", "_state_lock">>}
       /\ lk.holder["_state_lock"] = t =>
            ~(lk.todo[t] # <<>> /\ NextLockStep(t) = <<"acquire", "_thread_lock">>)
       /\ lk.todo[t] # <<>> =>
            \/ CanStep(t)
            \/ \E u \in LockThreads \ {t} :
                 /\ WaitsFor(t, u)
                 /\ \/ CanStep(u)
                    \/ \E v \in LockThreads \ {t, u} : WaitsFor(u, v) /\ CanStep(v)

(* the supervisory loop is in get_thread_status, holds the registry lock    *)
(* and waits for the shared-state lock, which the web layer holds while the *)
(* writer waits for it too                                                  *)
LockOrderAcyclicWitness ==
    /\ lk.held["monitor"] = <<"_thread_lock">>
    /\ WaitsFor("monitor", "web")
    /\ WaitsFor("writer", "web")
    /\ lk.held["web"] = <<"_state_lock">>

====
